---- MODULE Spec2Model ----
(***************************************************************************)
(* The device synchronization layer of the MQTT to Matter bridge: one      *)
(* Synchronization Instance (device bridge) bound to a graph node          *)
(* (endpoint) and the shared messaging client.                             *)
(***************************************************************************)
EXTENDS Integers, Sequences, FiniteSets, TLC

(***************************************************************************)
(* Bounds of the model.                                                    *)
(***************************************************************************)
\* Capacity of the queue of endpoint.set calls that are still in flight.
MaxPending == 1
\* Number of graph change notifications one run delivers to the instance.
MaxChanges == 2
\* Length of time (in timer units) one observed run of the debounce covers.
MaxTime == 125
MaxRegistered == 3
MaxDevices == 2
\* Number of messages the transport delivers in one run of the fan-out.
MaxMessages == 2
\* Number of setTimeout calls in one run of the timers.
MaxTimers == 4
\* Number of writes of a controller in one run with an echoing device.
MaxWrites == 2
\* Number of reports the echoing device sends of its own accord.
MaxSpontaneous == 2
\* Number of times an established connection to the broker drops.
MaxDrops == 2
\* How far outside 0..255 the brightness inputs of the converters go.
MaxOutOfRange == 3
\* Distance between the sampled channel values of an RGB input.
ChannelStep == 17

(***************************************************************************)
(* Program constants.                                                      *)
(***************************************************************************)
\* setTimeout(..., 50) in debouncedPublishRGB
DebounceDelay == 50
\* Granularity of the modelled clock: events arrive on multiples of it.
TickStep == 25
\* "let currentValue = 254" in publishRGB
DefaultValue == 254
\* JavaScript's undefined, for a topic role the config does not have
Undefined == "<undefined>"
\* parseBrightness's null and parseInt's NaN
Null == -1
\* publishRgbTimeout = null
NoTimeout == -1

\* The reconnect settings a broker config may leave out
DEFAULT_MQTT_SETTINGS ==
    [maxReconnectAttempts |-> 10, baseReconnectDelay |-> 1000,
     maxReconnectDelay |-> 60000]

Min(a, b) == IF a < b THEN a ELSE b
Max(a, b) == IF a > b THEN a ELSE b
\* Math.round of the non-negative rational n / d
Round(n, d) == (2 * n + d) \div (2 * d)

(***************************************************************************)
(* Payload strings. TLC cannot take a string apart, so every inbound       *)
(* payload is listed with its characters; the parsers work on them.        *)
(***************************************************************************)
Payloads ==
    { "ON", "OFF", "Online", "Offline", "yes", "no", "255", "256", "-1",
      "12px", "ff0000", "#00ff00",
      "{\"POWER\":\"ON\"}", "{\"POWER\":\"OFF\",\"INPUT\":\"HDMI3\"}",
      "{\"POWER\":\"yes\"}", "{\"INPUT\":\"HDMI1\"}", "null", "not-json" }

Chars(s) ==
    CASE s = "ON" -> <<"O", "N">>
      [] s = "OFF" -> <<"O", "F", "F">>
      [] s = "Online" -> <<"O", "n", "l", "i", "n", "e">>
      [] s = "Offline" -> <<"O", "f", "f", "l", "i", "n", "e">>
      [] s = "yes" -> <<"y", "e", "s">>
      [] s = "no" -> <<"n", "o">>
      [] s = "255" -> <<"2", "5", "5">>
      [] s = "256" -> <<"2", "5", "6">>
      [] s = "-1" -> <<"-", "1">>
      [] s = "12px" -> <<"1", "2", "p", "x">>
      [] s = "ff0000" -> <<"f", "f", "0", "0", "0", "0">>
      [] s = "#00ff00" -> <<"#", "0", "0", "f", "f", "0", "0">>
      [] s = "#" -> <<"#">>
      [] s = "FF0000" -> <<"F", "F", "0", "0", "0", "0">>
      [] s = "#00FF00" -> <<"#", "0", "0", "F", "F", "0", "0">>
      [] s = "AbCdEf" -> <<"A", "b", "C", "d", "E", "f">>
      [] s = "#aBc123" -> <<"#", "a", "B", "c", "1", "2", "3">>
      [] s = "000000" -> <<"0", "0", "0", "0", "0", "0">>
      [] s = "#ffffff" -> <<"#", "f", "f", "f", "f", "f", "f">>
      [] s = "0x1a2b3c" -> <<"0", "x", "1", "a", "2", "b", "3", "c">>
      [] s = "00ff0" -> <<"0", "0", "f", "f", "0">>
      [] s = "00ff000" -> <<"0", "0", "f", "f", "0", "0", "0">>
      [] s = "gg0000" -> <<"g", "g", "0", "0", "0", "0">>
      [] s = "#12345g" -> <<"#", "1", "2", "3", "4", "5", "g">>
      [] s = "##00ff00" -> <<"#", "#", "0", "0", "f", "f", "0", "0">>
      [] s = " ff0000" -> <<" ", "f", "f", "0", "0", "0", "0">>
      [] s = "0x" -> <<"0", "x">>
      [] s = "null" -> <<"n", "u", "l", "l">>
      [] s = "not-json" -> <<"n", "o", "t", "-", "j", "s", "o", "n">>
      [] s = "{\"POWER\":\"ON\"}" ->
            <<"{", "\"", "P", "O", "W", "E", "R", "\"", ":", "\"", "O", "N", "\"", "}">>
      [] s = "{\"POWER\":\"yes\"}" ->
            <<"{", "\"", "P", "O", "W", "E", "R", "\"", ":", "\"", "y", "e", "s", "\"", "}">>
      [] s = "{\"POWER\":\"OFF\",\"INPUT\":\"HDMI3\"}" ->
            <<"{", "\"", "P", "O", "W", "E", "R", "\"", ":", "\"", "O", "F", "F", "\"", ",",
              "\"", "I", "N", "P", "U", "T", "\"", ":", "\"", "H", "D", "M", "I", "3", "\"", "}">>
      [] s = "{\"INPUT\":\"HDMI1\"}" ->
            <<"{", "\"", "I", "N", "P", "U", "T", "\"", ":", "\"", "H", "D", "M", "I", "1", "\"", "}">>
      [] OTHER -> <<>>

DecDigits == <<"0", "1", "2", "3", "4", "5", "6", "7", "8", "9">>
HexDigits == <<"0", "1", "2", "3", "4", "5", "6", "7", "8", "9", "a", "b", "c", "d", "e", "f">>
UpperHexDigits == <<"A", "B", "C", "D", "E", "F">>
WhiteSpace == {" ", "\t", "\n"}

IsDecDigit(c) == \E i \in 1..10 : DecDigits[i] = c
DecValue(c) == CHOOSE i \in 0..9 : DecDigits[i + 1] = c
\* [0-9a-fA-F]
IsHexDigit(c) == (\E i \in 1..16 : HexDigits[i] = c) \/ (\E i \in 1..6 : UpperHexDigits[i] = c)
HexValue(c) ==
    IF \E i \in 1..16 : HexDigits[i] = c
    THEN CHOOSE i \in 0..15 : HexDigits[i + 1] = c
    ELSE CHOOSE i \in 10..15 : UpperHexDigits[i - 9] = c

\* Number.prototype.toString() of an integer in 0..999
toString(n) ==
    IF n < 10 THEN DecDigits[n + 1]
    ELSE IF n < 100 THEN DecDigits[(n \div 10) + 1] \o DecDigits[(n % 10) + 1]
    ELSE DecDigits[(n \div 100) + 1] \o DecDigits[((n \div 10) % 10) + 1] \o DecDigits[(n % 10) + 1]

(***************************************************************************)
(* Brightness converters (utils/BrightnessConverter).                      *)
(***************************************************************************)
\* The value of the longest prefix of cs (from index i on) made of digits
RECURSIVE DigitsValue(_, _, _)
DigitsValue(cs, i, acc) ==
    IF i > Len(cs) \/ ~IsDecDigit(cs[i]) THEN acc
    ELSE DigitsValue(cs, i + 1, Min(10 * acc + DecValue(cs[i]), 100000))

RECURSIVE SkipWhiteSpace(_, _)
SkipWhiteSpace(cs, i) ==
    IF i <= Len(cs) /\ cs[i] \in WhiteSpace THEN SkipWhiteSpace(cs, i + 1) ELSE i

\* parseInt(payload, 10): leading white space, an optional sign, then the longest
\* run of digits; NaN (here [nan |-> TRUE]) when there is no digit
parseInt(payload) ==
    LET cs == Chars(payload)
        i0 == SkipWhiteSpace(cs, 1)
        signed == i0 <= Len(cs) /\ cs[i0] \in {"-", "+"}
        i1 == IF signed THEN i0 + 1 ELSE i0
    IN  IF i1 > Len(cs) \/ ~IsDecDigit(cs[i1])
        THEN [nan |-> TRUE, val |-> 0]
        ELSE [nan |-> FALSE,
              val |-> IF signed /\ cs[i0] = "-" THEN 0 - DigitsValue(cs, i1, 0)
                      ELSE DigitsValue(cs, i1, 0)]

parseBrightness(payload) ==
    LET brightness == parseInt(payload)
    IN  IF brightness.nan \/ brightness.val < 0 \/ brightness.val > 255
        THEN Null
        ELSE brightness.val

\* No clamp to Matter's maximum
mqttToMatterBrightness_unclamped(mqttBrightness) == mqttBrightness

mqttToMatterBrightness(mqttBrightness) ==
    LET clamped == Max(0, Min(255, mqttBrightness))
    IN  Min(clamped, 254)

\* A rescaling to 0..255 in place of the clamp
matterToMqttBrightness_rescaled(matterLevel) == Round(255 * matterLevel, 254)

matterToMqttBrightness(matterLevel) == Max(0, Min(254, matterLevel))

(***************************************************************************)
(* Colour converters (utils/ColorConverter). The floating point arithmetic *)
(* of the source is computed exactly, on rationals; the two agree except   *)
(* where Math.round meets a quotient exactly halfway between two integers. *)
(***************************************************************************)
StartsWith(cs, pre) ==
    /\ Len(pre) <= Len(cs)
    /\ \A i \in 1..Len(pre) : cs[i] = pre[i]

\* A parseRgbHex whose pattern is [0-9a-f] only
parseRgbHex_lowerCaseOnly(rgbHex, prefix) ==
    LET cs == Chars(rgbHex)
        pre == IF prefix = Undefined THEN <<>> ELSE Chars(prefix)
        hex == IF Len(pre) > 0 /\ StartsWith(cs, pre)
               THEN SubSeq(cs, Len(pre) + 1, Len(cs))
               ELSE cs
    IN  IF Len(hex) = 6 /\ \A i \in 1..6 : \E j \in 1..16 : HexDigits[j] = hex[i]
        THEN [valid |-> TRUE,
              r |-> 16 * HexValue(hex[1]) + HexValue(hex[2]),
              g |-> 16 * HexValue(hex[3]) + HexValue(hex[4]),
              b |-> 16 * HexValue(hex[5]) + HexValue(hex[6])]
        ELSE [valid |-> FALSE, r |-> 0, g |-> 0, b |-> 0]

\* prefix is Undefined when the caller passes undefined
parseRgbHex(rgbHex, prefix) ==
    LET cs == Chars(rgbHex)
        pre == IF prefix = Undefined THEN <<>> ELSE Chars(prefix)
        hex == IF Len(pre) > 0 /\ StartsWith(cs, pre)
               THEN SubSeq(cs, Len(pre) + 1, Len(cs))
               ELSE cs
    IN  IF Len(hex) = 6 /\ \A i \in 1..6 : IsHexDigit(hex[i])
        THEN [valid |-> TRUE,
              r |-> 16 * HexValue(hex[1]) + HexValue(hex[2]),
              g |-> 16 * HexValue(hex[3]) + HexValue(hex[4]),
              b |-> 16 * HexValue(hex[5]) + HexValue(hex[6])]
        ELSE [valid |-> FALSE, r |-> 0, g |-> 0, b |-> 0]

Hex2(n) == HexDigits[(n \div 16) + 1] \o HexDigits[(n % 16) + 1]

rgbToHex(rgb, prefix) ==
    LET hex == Hex2(rgb.r) \o Hex2(rgb.g) \o Hex2(rgb.b)
    IN  IF prefix # Undefined /\ prefix # "" THEN prefix \o hex ELSE hex

\* An rgbToHsv that truncates the hue where the source rounds it
rgbToHsv_truncatedHue(rgb) ==
    LET max == Max(rgb.r, Max(rgb.g, rgb.b))
        min == Min(rgb.r, Min(rgb.g, rgb.b))
        delta == max - min
        hueNum == IF delta = 0 THEN 0
                  ELSE IF max = rgb.r
                       THEN (rgb.g - rgb.b) + (IF rgb.g < rgb.b THEN 6 * delta ELSE 0)
                  ELSE IF max = rgb.g
                       THEN (rgb.b - rgb.r) + 2 * delta
                  ELSE (rgb.r - rgb.g) + 4 * delta
    IN  [hue |-> IF delta = 0 THEN 0 ELSE (hueNum * 254) \div (6 * delta),
         saturation |-> IF max = 0 THEN 0 ELSE Round(delta * 254, max),
         value |-> Round(max * 254, 255)]

rgbToHsv(rgb) ==
    LET max == Max(rgb.r, Max(rgb.g, rgb.b))
        min == Min(rgb.r, Min(rgb.g, rgb.b))
        delta == max - min
        \* hue * 6 * delta
        hueNum == IF delta = 0 THEN 0
                  ELSE IF max = rgb.r
                       THEN (rgb.g - rgb.b) + (IF rgb.g < rgb.b THEN 6 * delta ELSE 0)
                  ELSE IF max = rgb.g
                       THEN (rgb.b - rgb.r) + 2 * delta
                  ELSE (rgb.r - rgb.g) + 4 * delta
    IN  [hue |-> IF delta = 0 THEN 0 ELSE Round(hueNum * 254, 6 * delta),
         saturation |-> IF max = 0 THEN 0 ELSE Round(delta * 254, max),
         value |-> Round(max * 254, 255)]

\* Math.round(255 * a / 254^3) for 0 <= a <= 254^3, without leaving 32 bits
Round255Cubed(a) ==
    (510 * (a \div 254) + ((510 * (a % 254)) \div 254) + 64516) \div 129032

hsvToRgb(hsv) ==
    LET i == (6 * hsv.hue) \div 254
        \* f * 254
        fNum == 6 * hsv.hue - 254 * i
        v == Round(255 * hsv.value, 254)
        p == Round(255 * hsv.value * (254 - hsv.saturation), 64516)
        q == Round255Cubed(hsv.value * (64516 - fNum * hsv.saturation))
        t == Round255Cubed(hsv.value * (64516 - (254 - fNum) * hsv.saturation))
        sector == i % 6
    IN  CASE sector = 0 -> [r |-> v, g |-> t, b |-> p]
          [] sector = 1 -> [r |-> q, g |-> v, b |-> p]
          [] sector = 2 -> [r |-> p, g |-> v, b |-> t]
          [] sector = 3 -> [r |-> p, g |-> q, b |-> v]
          [] sector = 4 -> [r |-> t, g |-> p, b |-> v]
          [] OTHER -> [r |-> v, g |-> p, b |-> q]

hexToHsv(rgbHex, prefix) ==
    LET rgb == parseRgbHex(rgbHex, prefix)
    IN  IF ~rgb.valid
        THEN [valid |-> FALSE, hue |-> 0, saturation |-> 0, value |-> 0]
        ELSE [valid |-> TRUE] @@ rgbToHsv(rgb)

hsvToHex(hsv, prefix) == rgbToHex(hsvToRgb(hsv), prefix)

(***************************************************************************)
(* Device configurations, as validateConfig leaves them (option defaults   *)
(* applied, every required topic role present).                            *)
(***************************************************************************)
\* DeviceRegistry.register(...) calls of mqtt/devices/index
DeviceTypes ==
    { "OnOffPlugInUnitDevice", "OnOffLightDevice", "DimmableLightDevice",
      "ExtendedColorLightDevice", "GenericSwitchDevice", "TVDevice" }

\* topicSchema.required of each device class
TopicRoles(type) ==
    CASE type \in {"OnOffPlugInUnitDevice", "OnOffLightDevice"} ->
            {"getOnline", "getOn", "setOn"}
      [] type = "DimmableLightDevice" ->
            {"getOnline", "getOn", "setOn", "getBrightness", "setBrightness"}
      [] type = "ExtendedColorLightDevice" ->
            {"getOnline", "getOn", "setOn", "getBrightness", "setBrightness",
             "getRGB", "setRGB"}
      [] type = "GenericSwitchDevice" -> {"getOnline", "setCommand"}
      [] OTHER -> {"getOnline", "getState", "setPower"}

AllRoles ==
    { "getOnline", "getOn", "setOn", "getBrightness", "setBrightness",
      "getRGB", "setRGB", "setCommand", "getState", "setPower" }

\* The topic string configured for a role; every role has a topic of its own
TopicString(role) == "home/dev/" \o role

\* A topic on the broker that belongs to another device
ForeignTopic == "home/other/state"

\* config.topics: a role the device type does not have reads as undefined
Topics(type) ==
    [role \in AllRoles |-> IF role \in TopicRoles(type) THEN TopicString(role) ELSE Undefined]

\* optionSchema defaults (applyOptionDefaults with no option given)
DefaultOptions(type) ==
    [onValue |-> IF type = "GenericSwitchDevice" THEN Undefined ELSE "ON",
     offValue |-> IF type = "GenericSwitchDevice" THEN Undefined ELSE "OFF",
     onlineValue |-> "Online",
     offlineValue |-> "Offline",
     hex |-> FALSE,
     hexPrefix |-> IF type = "ExtendedColorLightDevice" THEN "#" ELSE Undefined,
     commandValue |-> IF type = "GenericSwitchDevice" THEN "" ELSE Undefined]

\* options given in the configuration file (applyOptionDefaults keeps them)
CustomOptions(type) ==
    [onValue |-> IF type = "GenericSwitchDevice" THEN Undefined ELSE "yes",
     offValue |-> IF type = "GenericSwitchDevice" THEN Undefined ELSE "no",
     onlineValue |-> "yes",
     offlineValue |-> "no",
     hex |-> type = "ExtendedColorLightDevice",
     hexPrefix |-> IF type = "ExtendedColorLightDevice" THEN "#" ELSE Undefined,
     commandValue |-> IF type = "GenericSwitchDevice" THEN "TOGGLE" ELSE Undefined]

Configs ==
    UNION { { [type |-> type, topics |-> Topics(type), options |-> opts] :
                opts \in {DefaultOptions(type), CustomOptions(type)} } :
            type \in DeviceTypes }

\* createEndpointConfig(config).state of each device class; an attribute
\* whose cluster the state does not name is Null
createEndpointConfig(cfg) ==
    CASE cfg.type \in {"OnOffPlugInUnitDevice", "OnOffLightDevice"} ->
            [reachable |-> FALSE, onOff |-> TRUE, currentLevel |-> Null,
             currentHue |-> Null, currentSaturation |-> Null]
      [] cfg.type = "DimmableLightDevice" ->
            [reachable |-> TRUE, onOff |-> TRUE, currentLevel |-> 254,
             currentHue |-> Null, currentSaturation |-> Null]
      [] cfg.type = "ExtendedColorLightDevice" ->
            [reachable |-> TRUE, onOff |-> TRUE, currentLevel |-> 254,
             currentHue |-> 0, currentSaturation |-> 254]
      [] cfg.type = "GenericSwitchDevice" ->
            [reachable |-> TRUE, onOff |-> FALSE, currentLevel |-> Null,
             currentHue |-> Null, currentSaturation |-> Null]
      [] OTHER ->
            [reachable |-> FALSE, onOff |-> FALSE, currentLevel |-> Null,
             currentHue |-> Null, currentSaturation |-> Null]

\* The observables endpoint.events can offer for the Matter device type that
\* getMatterDeviceType selects. Which of the optional ones exist is decided
\* by the Matter library, so every possibility is a node shape.
NodeShapes(type) ==
    CASE type \in {"OnOffPlugInUnitDevice", "OnOffLightDevice", "TVDevice"} ->
            { {"onOff$Changed"} }
      [] type = "DimmableLightDevice" ->
            { {"onOff$Changed"}, {"onOff$Changed", "currentLevel$Changed"} }
      [] type = "ExtendedColorLightDevice" ->
            { {"onOff$Changed", "currentLevel$Changed", "currentHue$Changed",
               "currentSaturation$Changed"},
              {"onOff$Changed", "currentLevel$Changed", "currentHue$Changed",
               "currentSaturation$Changed", "stateChanged"} }
      [] OTHER -> { {}, {"initialPress$Changed"} }


(***************************************************************************)
(* JSON.parse, for the documents a device can send: a flat object of       *)
(* string members, an integer, or null. Anything else is a SyntaxError.    *)
(***************************************************************************)
\* The string literal that opens at cs[i]; next is the index after its end
RECURSIVE ReadString(_, _, _)
ReadString(cs, i, acc) ==
    IF i > Len(cs) THEN [ok |-> FALSE, str |-> acc, next |-> i]
    ELSE IF cs[i] = "\"" THEN [ok |-> TRUE, str |-> acc, next |-> i + 1]
    ELSE ReadString(cs, i + 1, acc \o cs[i])

\* The members "key":"value" from cs[i] on, up to the closing brace
RECURSIVE ReadMembers(_, _, _)
ReadMembers(cs, i, acc) ==
    IF i > Len(cs) \/ cs[i] # "\"" THEN [ok |-> FALSE, members |-> acc]
    ELSE
        LET key == ReadString(cs, i + 1, "")
        IN  IF ~key.ok \/ key.next + 1 > Len(cs)
               \/ cs[key.next] # ":" \/ cs[key.next + 1] # "\""
            THEN [ok |-> FALSE, members |-> acc]
            ELSE
                LET val == ReadString(cs, key.next + 2, "")
                    all == Append(acc, [key |-> key.str, value |-> val.str])
                IN  IF ~val.ok \/ val.next > Len(cs) THEN [ok |-> FALSE, members |-> acc]
                    ELSE IF cs[val.next] = "}"
                         THEN [ok |-> val.next = Len(cs), members |-> all]
                    ELSE IF cs[val.next] = ","
                         THEN ReadMembers(cs, val.next + 1, all)
                    ELSE [ok |-> FALSE, members |-> acc]

IsJsonNumber(cs) ==
    LET first == IF Len(cs) > 0 /\ cs[1] = "-" THEN 2 ELSE 1
    IN  /\ first <= Len(cs)
        /\ \A i \in first..Len(cs) : IsDecDigit(cs[i])
        /\ (cs[first] = "0" => first = Len(cs))

\* threw: JSON.parse raised a SyntaxError
JSONparse(message) ==
    LET cs == Chars(message)
        none == [threw |-> TRUE, kind |-> "none", members |-> <<>>]
    IN  IF Len(cs) = 0 THEN none
        ELSE IF cs[1] = "{"
        THEN LET obj == ReadMembers(cs, 2, <<>>)
             IN  IF obj.ok THEN [threw |-> FALSE, kind |-> "object", members |-> obj.members]
                 ELSE none
        ELSE IF cs = <<"n", "u", "l", "l">>
        THEN [threw |-> FALSE, kind |-> "null", members |-> <<>>]
        ELSE IF IsJsonNumber(cs)
        THEN [threw |-> FALSE, kind |-> "number", members |-> <<>>]
        ELSE none

\* value.name of a parsed document (the last member of that name wins);
\* Undefined when there is none
Property(value, name) ==
    LET hits == {i \in 1..Len(value.members) : value.members[i].key = name}
    IN  IF hits = {} THEN Undefined
        ELSE value.members[CHOOSE i \in hits : \A j \in hits : j <= i].value

(***************************************************************************)
(* The state of one Synchronization Instance, its graph node and the       *)
(* messaging client.                                                       *)
(***************************************************************************)
VARIABLES
    config,             \* this.config
    events,             \* the observables this.endpoint.events offers
    endpoint,           \* this.endpoint.state
    connected,          \* mqttClient: client.connected
    initialized,        \* setupMatterEventHandlers has run
    currentHue,         \* ColorDevice.currentHue
    currentSaturation,  \* ColorDevice.currentSaturation
    publishRgbTimeout,  \* ColorDevice.publishRgbTimeout: time left, or NoTimeout
    pendingSets,        \* endpoint.set calls whose promise is not settled yet
    ev,                 \* the event the last step handled
    sets,               \* the endpoint.set calls the last step issued
    pubs,               \* the mqttClient.publish calls the last step issued
    errors,             \* the console.error calls the last step caused
    clock,              \* observer: the time
    changeTimes,        \* observer: times of the hue/saturation notifications
    rgbTimes,           \* observer: times of the publishes on setRGB
    quiet,              \* observer: nothing but hue/saturation notifications
                        \*           has touched the debounce so far
    scheduledLevel,     \* observer: the node's level when the pending
                        \*           publish was first scheduled
    inbound,            \* observer: the messages in the order the transport
                        \*           delivered them, and for each bridge the
                        \*           handleMqttMessage calls in their order
    timers,             \* the runtime's timers of a colour device: those
                        \* scheduled and not yet run, the one the field
                        \* publishRgbTimeout refers to, those cleared, and
                        \* those whose callback has run
    wire,               \* the device behind the broker: its reports on the
                        \* way to the bridge, and what the environment has
                        \* done so far
    link                \* MqttClient: its client, its reconnect counter and
                        \* settings, the connection of the library's client,
                        \* the reconnect timers not yet run, and what the
                        \* client has done so far

core == <<config, events, endpoint, connected, initialized, currentHue,
          currentSaturation, publishRgbTimeout, pendingSets, ev, sets, pubs, errors>>
observers == <<clock, changeTimes, rgbTimes, quiet, scheduledLevel, inbound, timers,
               wire, link>>

(***************************************************************************)
(* The state of the registry of device types (DeviceRegistry.registry, a   *)
(* static of the process), of the configuration loader and of the          *)
(* bootstrap that assembles the instances.                                 *)
(***************************************************************************)
VARIABLES
    registry,           \* DeviceRegistry.registry: the entries in insertion order
    firstRegistered,    \* observer: for each type name, the entry its first
                        \*           successful registration installed
    op,                 \* the last call on the registry, a descriptor or the
                        \* factory, with its arguments and its outcome
    cfg,                \* the config object handed to validateConfig
    file,               \* raw.devices: the device entries of the config file
    phase,              \* how far bootstrap() has come
    devices,            \* config.devices, as loadFromFile returned it
    nodes,              \* the endpoints created and added to the aggregator
    bridges,            \* the instances constructed, in order of construction
    listening,          \* mqttClient.onMessage has the fan-out handler
    initializedBridges  \* how many bridges bootstrap() has initialized

startup == <<registry, firstRegistered, op, cfg, file, phase, devices, nodes,
             bridges, listening, initializedBridges>>
vars == <<core, observers, startup>>

(***************************************************************************)
(* Device type descriptors: the static metadata of each device class, and  *)
(* the validation helpers they share.                                      *)
(***************************************************************************)
\* A descriptor is named by its metadata.typeName, a class by its name
DeviceClasses ==
    { "OnOffDevice", "DimmableDevice", "ColorDevice", "MomentarySwitchDevice",
      "TVDevice" }

\* A value of the configuration file with its JavaScript type
JsUndefined == [type |-> "undefined", text |-> ""]

JsString(s) == [type |-> "string", text |-> s]

JsNumber(s) == [type |-> "number", text |-> s]

JsBoolean(b) == [type |-> "boolean", text |-> IF b THEN "true" ELSE "false"]

\* `${value}` of a string that may be undefined
Str(value) == IF value = Undefined THEN "undefined" ELSE value

\* A text a template literal builds is kept as the sequence of its pieces:
\* the literal parts and the values put between them. Mentions tells
\* whether a value is one of the pieces.
Mentions(text, value) == \E i \in DOMAIN text : text[i] = value

\* !value of a string that may be undefined
Falsy(value) == value \in {Undefined, ""}

\* metadata.topicSchema of each device class, in the order of the source
topicSchema(metadata) ==
    [required |->
        CASE metadata = "OnOffDevice" -> <<"getOnline", "getOn", "setOn">>
          [] metadata = "DimmableDevice" ->
                <<"getOnline", "getOn", "setOn", "getBrightness", "setBrightness">>
          [] metadata = "ColorDevice" ->
                <<"getOnline", "getOn", "setOn", "getBrightness", "setBrightness",
                  "getRGB", "setRGB">>
          [] metadata = "MomentarySwitchDevice" -> <<"getOnline", "setCommand">>
          [] OTHER -> <<"getOnline", "getState", "setPower">>,
     optional |-> <<>>]

OptionNames ==
    { "onValue", "offValue", "onlineValue", "offlineValue", "hex", "hexPrefix",
      "commandValue" }

\* metadata.optionSchema of each device class: the declared type and the
\* default of each option
optionSchema(metadata) ==
    LET string(default) == [type |-> "string", default |-> JsString(default)]
        availability == "onlineValue" :> string("Online") @@ "offlineValue" :> string("Offline")
        onOff == "onValue" :> string("ON") @@ "offValue" :> string("OFF")
    IN  CASE metadata = "ColorDevice" ->
                onOff @@ availability
                      @@ "hex" :> [type |-> "boolean", default |-> JsBoolean(FALSE)]
                      @@ "hexPrefix" :> string("#")
          [] metadata = "MomentarySwitchDevice" ->
                availability @@ "commandValue" :> string("")
          [] OTHER -> onOff @@ availability

\* The values of deviceConfig.type a descriptor's validateConfig accepts
AcceptedTypes(metadata) ==
    CASE metadata = "OnOffDevice" -> {"OnOffPlugInUnitDevice", "OnOffLightDevice"}
      [] metadata = "DimmableDevice" -> {"DimmableLightDevice"}
      [] metadata = "ColorDevice" -> {"ExtendedColorLightDevice"}
      [] metadata = "MomentarySwitchDevice" -> {"GenericSwitchDevice"}
      [] OTHER -> {"TVDevice"}

createValidationResult(errorList) ==
    [valid |-> Len(errorList) = 0, errors |-> errorList]

\* A validateTopics that stops at the first required role it misses
validateTopics_firstOnly(deviceConfig, schema, deviceName) ==
    LET missing == SelectSeq(schema.required,
                             LAMBDA topicKey : Falsy(deviceConfig.topics[topicKey]))
    IN  [i \in 1..Min(1, Len(missing)) |->
            <<"[", deviceName, "] Missing required topic: ", missing[i]>>]

\* One error for each required role whose topic is missing or empty, in the
\* order of schema.required
validateTopics(deviceConfig, schema, deviceName) ==
    LET missing == SelectSeq(schema.required,
                             LAMBDA topicKey : Falsy(deviceConfig.topics[topicKey]))
    IN  [i \in 1..Len(missing) |->
            <<"[", deviceName, "] Missing required topic: ", missing[i]>>]

\* An applyOptionDefaults that fills in the defaults of the string options
\* only
applyOptionDefaults_stringsOnly(deviceConfig, schema) ==
    [key \in DOMAIN deviceConfig.options |->
        IF /\ key \in DOMAIN schema
           /\ deviceConfig.options[key] = JsUndefined
           /\ schema[key].type = "string"
        THEN schema[key].default
        ELSE deviceConfig.options[key]]

\* An applyOptionDefaults that gives every option of the schema its default
applyOptionDefaults_overwriting(deviceConfig, schema) ==
    [key \in DOMAIN deviceConfig.options |->
        IF key \in DOMAIN schema
        THEN schema[key].default
        ELSE deviceConfig.options[key]]

\* A copy of deviceConfig.options in which every option of the schema that is
\* undefined has its default
applyOptionDefaults(deviceConfig, schema) ==
    [key \in DOMAIN deviceConfig.options |->
        IF key \in DOMAIN schema /\ deviceConfig.options[key] = JsUndefined
        THEN schema[key].default
        ELSE deviceConfig.options[key]]

\* metadata.validateConfig of the five device classes: the result, and the
\* config with the options it assigns in place
validateConfig(metadata, deviceConfig) ==
    LET nameErrors ==
            IF Falsy(deviceConfig.name) THEN << <<"Missing device name">> >> ELSE <<>>
        typeErrors ==
            IF deviceConfig.type \notin AcceptedTypes(metadata)
            THEN << <<"Invalid type for " \o metadata \o ": ", Str(deviceConfig.type)>> >>
            ELSE <<>>
        topicErrors ==
            validateTopics(deviceConfig, topicSchema(metadata),
                           IF Falsy(deviceConfig.name) THEN "unknown" ELSE deviceConfig.name)
        result == createValidationResult(nameErrors \o typeErrors \o topicErrors)
    IN  [valid |-> result.valid, errors |-> result.errors,
         config |-> [deviceConfig EXCEPT
                        !.options = applyOptionDefaults(deviceConfig, optionSchema(metadata))]]

(***************************************************************************)
(* DeviceRegistry: a map from type name to descriptor and class that       *)
(* keeps the order of insertion.                                           *)
(***************************************************************************)
Entry(typeName, metadata, deviceClass) ==
    [typeName |-> typeName, metadata |-> metadata, deviceClass |-> deviceClass]

\* What Map.get returns for a key the map does not have
NoEntry == Entry(Undefined, Undefined, Undefined)

\* this.registry.has(typeName)
has(typeName) == \E i \in DOMAIN registry : registry[i].typeName = typeName

\* this.registry.get(typeName)
get(typeName) ==
    IF has(typeName)
    THEN registry[CHOOSE i \in DOMAIN registry : registry[i].typeName = typeName]
    ELSE NoEntry

\* this.registry.set(typeName, entry): a new key goes to the end, a key the
\* map has keeps its place
set(typeName, entry) ==
    IF has(typeName)
    THEN [i \in DOMAIN registry |->
            IF registry[i].typeName = typeName THEN entry ELSE registry[i]]
    ELSE Append(registry, entry)

\* A registration that installs the second entry before it fails
register_overwrites(typeName, metadata, deviceClass) ==
    IF has(typeName)
    THEN [threw |-> TRUE,
          message |-> <<"Device type already registered: ", typeName>>,
          registry |-> set(typeName, Entry(typeName, metadata, deviceClass))]
    ELSE [threw |-> FALSE, message |-> <<>>,
          registry |-> set(typeName, Entry(typeName, metadata, deviceClass))]

\* DeviceRegistry.register: the outcome and the registry it leaves
register(typeName, metadata, deviceClass) ==
    IF has(typeName)
    THEN [threw |-> TRUE,
          message |-> <<"Device type already registered: ", typeName>>,
          registry |-> registry]
    ELSE [threw |-> FALSE, message |-> <<>>,
          registry |-> set(typeName, Entry(typeName, metadata, deviceClass))]

getMetadata(typeName) == get(typeName).metadata

getRegisteredTypes == [i \in DOMAIN registry |-> registry[i].typeName]

isRegistered(typeName) == has(typeName)

\* Array.prototype.join: the pieces of the text it returns
RECURSIVE Join(_, _)
Join(strings, separator) ==
    IF Len(strings) = 0 THEN <<>>
    ELSE IF Len(strings) = 1 THEN <<strings[1]>>
    ELSE <<strings[1], separator>> \o Join(Tail(strings), separator)

\* new deviceClass(deviceConfig, endpoint, mqttClient)
Instance(deviceClass, deviceConfig, node, mqttClient) ==
    [class |-> deviceClass, config |-> deviceConfig, endpoint |-> node,
     mqttClient |-> mqttClient]

\* A createDevice whose error does not list the registered types
createDevice_unlisted(deviceConfig, node, mqttClient) ==
    LET typeName == deviceConfig.type
        entry == get(typeName)
    IN  IF entry = NoEntry
        THEN [threw |-> TRUE,
              message |-> <<"Unknown device type: ", typeName>>,
              instances |-> <<>>]
        ELSE [threw |-> FALSE, message |-> <<>>,
              instances |-> <<Instance(entry.deviceClass, deviceConfig, node, mqttClient)>>]

\* DeviceRegistry.createDevice: the outcome and the instances constructed
createDevice(deviceConfig, node, mqttClient) ==
    LET typeName == deviceConfig.type
        entry == get(typeName)
    IN  IF entry = NoEntry
        THEN [threw |-> TRUE,
              message |-> <<"Unknown device type: ", typeName, ". Available types: ">>
                          \o Join(getRegisteredTypes, ", "),
              instances |-> <<>>]
        ELSE [threw |-> FALSE, message |-> <<>>,
              instances |-> <<Instance(entry.deviceClass, deviceConfig, node, mqttClient)>>]

\* DeviceRegistry.validateConfig
DeviceRegistry_validateConfig(deviceConfig) ==
    LET typeName == deviceConfig.type
        metadata == getMetadata(typeName)
    IN  IF metadata = Undefined
        THEN [valid |-> FALSE, errors |-> << <<"Unknown device type: ", typeName>> >>,
              config |-> deviceConfig]
        ELSE validateConfig(metadata, deviceConfig)

\* DeviceFactory.createDevice: a switch over deviceConfig.type
DeviceFactory_createDevice(deviceConfig, node, mqttClient) ==
    CASE deviceConfig.type \in {"OnOffPlugInUnitDevice", "OnOffLightDevice"} ->
            [threw |-> FALSE, message |-> <<>>,
             instances |-> <<Instance("OnOffDevice", deviceConfig, node, mqttClient)>>]
      [] deviceConfig.type = "DimmableLightDevice" ->
            [threw |-> FALSE, message |-> <<>>,
             instances |-> <<Instance("DimmableDevice", deviceConfig, node, mqttClient)>>]
      [] deviceConfig.type = "ExtendedColorLightDevice" ->
            [threw |-> FALSE, message |-> <<>>,
             instances |-> <<Instance("ColorDevice", deviceConfig, node, mqttClient)>>]
      [] OTHER ->
            [threw |-> TRUE,
             message |-> <<"Unsupported device type: ", deviceConfig.type>>,
             instances |-> <<>>]

(***************************************************************************)
(* ConfigParser: the device entries of the configuration file              *)
(***************************************************************************)
\* An options table of the configuration file that gives no option
NoOptions == [key \in OptionNames |-> JsUndefined]

\* A device entry as ConfigParser.parseDevice builds it
DeviceConfig(name, type, topics, options) ==
    [name |-> name, type |-> type, topics |-> topics, options |-> options]

\* Array.prototype.join of texts: the pieces of the text it returns
RECURSIVE JoinTexts(_, _)
JoinTexts(texts, separator) ==
    IF Len(texts) = 0 THEN <<>>
    ELSE IF Len(texts) = 1 THEN texts[1]
    ELSE texts[1] \o <<separator>> \o JoinTexts(Tail(texts), separator)

\* A parseDevice that returns the entry as the file gave it
parseDevice_undefaulted(raw, index) ==
    LET where == <<"devices[", toString(index), "]">>
        deviceConfig == DeviceConfig(raw.name, raw.type, raw.topics, raw.options)
        validationResult == DeviceRegistry_validateConfig(deviceConfig)
    IN  IF raw.type = Undefined
        THEN [threw |-> TRUE, message |-> where \o <<".type must be a string">>,
              configs |-> <<>>]
        ELSE IF ~isRegistered(raw.type)
        THEN [threw |-> TRUE,
              message |-> where \o <<".type \"", raw.type,
                                     "\" is not a valid device type. Available types: ">>
                                \o Join(getRegisteredTypes, ", "),
              configs |-> <<>>]
        ELSE IF Falsy(raw.name)
        THEN [threw |-> TRUE,
              message |-> where \o <<".name must be a non-empty string">>,
              configs |-> <<>>]
        ELSE IF ~validationResult.valid
        THEN [threw |-> TRUE,
              message |-> where \o <<" validation failed:\n  ">>
                                \o JoinTexts(validationResult.errors, "\n  "),
              configs |-> <<>>]
        ELSE [threw |-> FALSE, message |-> <<>>, configs |-> <<deviceConfig>>]

\* ConfigParser.parseDevice: the error it throws, or the config it returns,
\* which validateConfig of the registry has changed in place
parseDevice(raw, index) ==
    LET where == <<"devices[", toString(index), "]">>
        deviceConfig == DeviceConfig(raw.name, raw.type, raw.topics, raw.options)
        validationResult == DeviceRegistry_validateConfig(deviceConfig)
    IN  IF raw.type = Undefined
        THEN [threw |-> TRUE, message |-> where \o <<".type must be a string">>,
              configs |-> <<>>]
        ELSE IF ~isRegistered(raw.type)
        THEN [threw |-> TRUE,
              message |-> where \o <<".type \"", raw.type,
                                     "\" is not a valid device type. Available types: ">>
                                \o Join(getRegisteredTypes, ", "),
              configs |-> <<>>]
        ELSE IF Falsy(raw.name)
        THEN [threw |-> TRUE,
              message |-> where \o <<".name must be a non-empty string">>,
              configs |-> <<>>]
        ELSE IF ~validationResult.valid
        THEN [threw |-> TRUE,
              message |-> where \o <<" validation failed:\n  ">>
                                \o JoinTexts(validationResult.errors, "\n  "),
              configs |-> <<>>]
        ELSE [threw |-> FALSE, message |-> <<>>,
              configs |-> <<validationResult.config>>]

\* ConfigParser.parseDevices: raw.map stops at the first entry whose
\* parseDevice throws
parseDevices(raw) ==
    IF Len(raw) = 0
    THEN [threw |-> TRUE, message |-> <<"devices array cannot be empty">>,
          devices |-> <<>>]
    ELSE LET parsed == [i \in DOMAIN raw |-> parseDevice(raw[i], i - 1)]
             failed == { i \in DOMAIN raw : parsed[i].threw }
             first == CHOOSE i \in failed : \A j \in failed : i <= j
         IN  IF failed # {}
             THEN [threw |-> TRUE, message |-> parsed[first].message,
                   devices |-> <<>>]
             ELSE [threw |-> FALSE, message |-> <<>>,
                   devices |-> [i \in DOMAIN raw |-> parsed[i].configs[1]]]

\* createEndpointId of index.ts: lower case, white space replaced by "-"
createEndpointId(deviceName) ==
    CASE deviceName = "Lamp" -> "lamp"
      [] deviceName = "Desk Plug" -> "desk-plug"
      [] OTHER -> deviceName

\* The registrations of mqtt/devices/index.ts, in its order
BuiltIn ==
    << Entry("OnOffPlugInUnitDevice", "OnOffDevice", "OnOffDevice"),
       Entry("OnOffLightDevice", "OnOffDevice", "OnOffDevice"),
       Entry("DimmableLightDevice", "DimmableDevice", "DimmableDevice"),
       Entry("ExtendedColorLightDevice", "ColorDevice", "ColorDevice"),
       Entry("GenericSwitchDevice", "MomentarySwitchDevice", "MomentarySwitchDevice"),
       Entry("TVDevice", "TVDevice", "TVDevice") >>

\* A type name no built-in registration uses
UnregisteredType == "ThermostatDevice"

TypeNames == DeviceTypes \cup {UnregisteredType}

\* No call has been made yet
NoCall == [name |-> "none"]

\* The device has reported nothing and the environment has done nothing
NoReports == [reports |-> <<>>, writes |-> 0, spontaneous |-> 0, raced |-> FALSE]

\* The messaging client as new MqttClient(config) leaves it when the
\* config names none of the reconnect settings
NoLink ==
    [client |-> "null", reconnectAttempts |-> 0,
     maxReconnectAttempts |-> DEFAULT_MQTT_SETTINGS.maxReconnectAttempts,
     baseReconnectDelay |-> DEFAULT_MQTT_SETTINGS.baseReconnectDelay,
     maxReconnectDelay |-> DEFAULT_MQTT_SETTINGS.maxReconnectDelay,
     stream |-> "none", ending |-> FALSE, timeouts |-> <<>>,
     last |-> "new", closes |-> 0, drops |-> 0, reconnects |-> 0,
     ran |-> <<>>, disconnected |-> FALSE]

\* No timer has been scheduled
NoTimers == [next |-> 1, live |-> {}, handle |-> NoTimeout, cleared |-> {}, ran |-> <<>>]

\* No message has been delivered
NoTraffic == [delivered |-> <<>>, handled |-> <<>>]

\* The instance whose handlers are modelled above is not looked at
Unobserved ==
    /\ config = Undefined
    /\ events = {}
    /\ endpoint = Undefined
    /\ connected = FALSE
    /\ initialized = FALSE
    /\ currentHue = 0
    /\ currentSaturation = 0
    /\ publishRgbTimeout = NoTimeout
    /\ pendingSets = <<>>
    /\ ev = Undefined
    /\ sets = <<>>
    /\ pubs = <<>>
    /\ errors = 0
    /\ clock = 0
    /\ changeTimes = <<>>
    /\ rgbTimes = <<>>
    /\ quiet = TRUE
    /\ scheduledLevel = Null
    /\ inbound = NoTraffic
    /\ timers = NoTimers
    /\ wire = NoReports

\* The registry once mqtt/devices/index.ts has been imported
Imported ==
    /\ registry = BuiltIn
    /\ firstRegistered = [typeName \in TypeNames |-> get(typeName)]

\* bootstrap() has not run
Unloaded ==
    /\ file = <<>>
    /\ phase = "imported"
    /\ devices = <<>>
    /\ nodes = <<>>
    /\ bridges = <<>>
    /\ listening = FALSE
    /\ initializedBridges = 0

\* Nothing has been called and bootstrap() has not run
Unstarted ==
    /\ op = NoCall
    /\ cfg = Undefined
    /\ Unloaded

\* What a handler does: the calls it issues and the fields it assigns;
\* threw says that an exception, or a rejection nothing catches, leaves it
NoEffect ==
    [sets |-> <<>>, pubs |-> <<>>, errors |-> 0, hue |-> currentHue,
     sat |-> currentSaturation, timeout |-> publishRgbTimeout, threw |-> FALSE]

\* this.endpoint.set({cluster: {attr: value}}); bool or num holds the value
SetCall(cluster, attr, b, n) == [cluster |-> cluster, attr |-> attr, bool |-> b, num |-> n]

\* A publish that is tried a second time when the client rejects it
publish_retried(topic, payload) ==
    LET attempt == [topic |-> topic, payload |-> payload, sent |-> connected]
    IN  [NoEffect EXCEPT !.pubs = IF connected THEN <<attempt>> ELSE <<attempt, attempt>>,
                         !.errors = IF connected THEN 0 ELSE 1]

\* MqttClient.publish: the promise rejects when the client is not connected,
\* and the caller's catch logs the error
publish(topic, payload) ==
    [NoEffect EXCEPT !.pubs = <<[topic |-> topic, payload |-> payload, sent |-> connected]>>,
                     !.errors = IF connected THEN 0 ELSE 1]

(***************************************************************************)
(* Handlers of inbound messages.                                           *)
(***************************************************************************)
\* Every payload but the offline value counts as online
handleAvailability_notOffline(message) ==
    LET isOnline == message # config.options.offlineValue
    IN  [NoEffect EXCEPT !.sets =
            <<SetCall("bridgedDeviceBasicInformation", "reachable", isOnline, 0)>>]

handleAvailability(message) ==
    LET isOnline == message = config.options.onlineValue
    IN  [NoEffect EXCEPT !.sets =
            <<SetCall("bridgedDeviceBasicInformation", "reachable", isOnline, 0)>>]

\* Every payload but the off value counts as on
handleOnOffState_notOff(message) ==
    LET isOn == message # config.options.offValue
    IN  [NoEffect EXCEPT !.sets = <<SetCall("onOff", "onOff", isOn, 0)>>]

handleOnOffState(message) ==
    LET isOn == message = config.options.onValue
    IN  [NoEffect EXCEPT !.sets = <<SetCall("onOff", "onOff", isOn, 0)>>]

handleBrightnessState(message) ==
    LET brightness == parseBrightness(message)
    IN  IF brightness = Null
        THEN [NoEffect EXCEPT !.errors = 1]
        ELSE [NoEffect EXCEPT !.sets =
                <<SetCall("levelControl", "currentLevel", FALSE,
                          mqttToMatterBrightness(brightness))>>]

\* A valid colour is also written to the node
handleRGBState_setsColor(message) ==
    LET prefix == IF config.options.hex THEN config.options.hexPrefix ELSE Undefined
        hsv == hexToHsv(message, prefix)
    IN  IF ~hsv.valid
        THEN [NoEffect EXCEPT !.errors = 1]
        ELSE [NoEffect EXCEPT !.hue = hsv.hue, !.sat = hsv.saturation,
                              !.sets = <<SetCall("colorControl", "currentHue", FALSE, hsv.hue)>>]

handleRGBState(message) ==
    LET prefix == IF config.options.hex THEN config.options.hexPrefix ELSE Undefined
        hsv == hexToHsv(message, prefix)
    IN  IF ~hsv.valid
        THEN [NoEffect EXCEPT !.errors = 1]
        ELSE [NoEffect EXCEPT !.hue = hsv.hue, !.sat = hsv.saturation]

\* JSON.parse and the read of POWER outside the try block
handleStateUpdate_unguarded(message) ==
    LET state == JSONparse(message)
    IN  IF state.threw \/ state.kind = "null"
        THEN [NoEffect EXCEPT !.threw = TRUE]
        ELSE IF Property(state, "POWER") # Undefined
        THEN LET isOn == Property(state, "POWER") = config.options.onValue
             IN  [NoEffect EXCEPT !.sets = <<SetCall("onOff", "onOff", isOn, 0)>>]
        ELSE NoEffect

\* Every POWER but the off value counts as on
handleStateUpdate_notOff(message) ==
    LET state == JSONparse(message)
    IN  IF state.threw \/ state.kind = "null"
        THEN [NoEffect EXCEPT !.errors = 1]
        ELSE IF Property(state, "POWER") # Undefined
        THEN LET isOn == Property(state, "POWER") # config.options.offValue
             IN  [NoEffect EXCEPT !.sets = <<SetCall("onOff", "onOff", isOn, 0)>>]
        ELSE NoEffect

\* TVDevice: a document without POWER sets nothing; null has no properties,
\* so reading POWER throws inside the try as a SyntaxError does
handleStateUpdate(message) ==
    LET state == JSONparse(message)
    IN  IF state.threw \/ state.kind = "null"
        THEN [NoEffect EXCEPT !.errors = 1]
        ELSE IF Property(state, "POWER") # Undefined
        THEN LET isOn == Property(state, "POWER") = config.options.onValue
             IN  [NoEffect EXCEPT !.sets = <<SetCall("onOff", "onOff", isOn, 0)>>]
        ELSE NoEffect

\* The command topic read as a state topic
OnOffDevice_handleMqttMessage_echo(topic, message) ==
    IF topic = config.topics.getOnline THEN handleAvailability(message)
    ELSE IF topic \in {config.topics.getOn, config.topics.setOn} THEN handleOnOffState(message)
    ELSE NoEffect

OnOffDevice_handleMqttMessage(topic, message) ==
    IF topic = config.topics.getOnline THEN handleAvailability(message)
    ELSE IF topic = config.topics.getOn THEN handleOnOffState(message)
    ELSE NoEffect

DimmableDevice_handleMqttMessage(topic, message) ==
    IF topic = config.topics.getOnline THEN handleAvailability(message)
    ELSE IF topic = config.topics.getOn THEN handleOnOffState(message)
    ELSE IF topic = config.topics.getBrightness THEN handleBrightnessState(message)
    ELSE NoEffect

ColorDevice_handleMqttMessage(topic, message) ==
    IF topic = config.topics.getOnline THEN handleAvailability(message)
    ELSE IF topic = config.topics.getOn THEN handleOnOffState(message)
    ELSE IF topic = config.topics.getBrightness THEN handleBrightnessState(message)
    ELSE IF topic = config.topics.getRGB THEN handleRGBState(message)
    ELSE NoEffect

MomentarySwitchDevice_handleMqttMessage(topic, message) ==
    IF topic = config.topics.getOnline THEN handleAvailability(message)
    ELSE NoEffect

TVDevice_handleMqttMessage(topic, message) ==
    IF topic = config.topics.getOnline THEN handleAvailability(message)
    ELSE IF topic = config.topics.getState THEN handleStateUpdate(message)
    ELSE NoEffect

\* DeviceRegistry: the class registered for the device type
handleMqttMessage(topic, message) ==
    CASE config.type \in {"OnOffPlugInUnitDevice", "OnOffLightDevice"} ->
            OnOffDevice_handleMqttMessage(topic, message)
      [] config.type = "DimmableLightDevice" -> DimmableDevice_handleMqttMessage(topic, message)
      [] config.type = "ExtendedColorLightDevice" -> ColorDevice_handleMqttMessage(topic, message)
      [] config.type = "GenericSwitchDevice" ->
            MomentarySwitchDevice_handleMqttMessage(topic, message)
      [] OTHER -> TVDevice_handleMqttMessage(topic, message)

(***************************************************************************)
(* Handlers of graph change notifications.                                 *)
(***************************************************************************)
\* The payloads swapped
handleMatterOnOffChange_swapped(value) ==
    LET mqttPayload == IF value THEN config.options.offValue ELSE config.options.onValue
    IN  publish(config.topics.setOn, mqttPayload)

handleMatterOnOffChange(value) ==
    LET mqttPayload == IF value THEN config.options.onValue ELSE config.options.offValue
    IN  publish(config.topics.setOn, mqttPayload)

\* TVDevice
handleMatterPowerChange(value) ==
    LET mqttPayload == IF value THEN config.options.onValue ELSE config.options.offValue
    IN  publish(config.topics.setPower, mqttPayload)

DimmableDevice_handleMatterBrightnessChange(value) ==
    LET mqttBrightness == matterToMqttBrightness(value)
    IN  publish(config.topics.setBrightness, toString(mqttBrightness))

\* A throttle in place of the debounce: a pending timer keeps its deadline
debouncedPublishRGB_keepsDeadline(e) ==
    IF e.timeout # NoTimeout THEN e ELSE [e EXCEPT !.timeout = DebounceDelay]

\* clearTimeout of a pending timer, then setTimeout(..., 50); e is what the
\* caller has done so far
debouncedPublishRGB(e) == [e EXCEPT !.timeout = DebounceDelay]

ColorDevice_handleMatterBrightnessChange(value) ==
    LET mqttBrightness == matterToMqttBrightness(value)
    IN  debouncedPublishRGB(publish(config.topics.setBrightness, toString(mqttBrightness)))

\* events.colorControl.currentHue$Changed.on(...)
currentHueChanged(value) ==
    IF value # currentHue
    THEN debouncedPublishRGB([NoEffect EXCEPT !.hue = value])
    ELSE NoEffect

\* events.colorControl.currentSaturation$Changed.on(...)
currentSaturationChanged(value) ==
    IF value # currentSaturation
    THEN debouncedPublishRGB([NoEffect EXCEPT !.sat = value])
    ELSE NoEffect

\* events.colorControl.stateChanged.on(...); state is the cluster's state
stateChanged(state) ==
    LET e1 == IF state.currentHue # Null /\ state.currentHue # currentHue
              THEN debouncedPublishRGB([NoEffect EXCEPT !.hue = state.currentHue])
              ELSE NoEffect
    IN  IF state.currentSaturation # Null /\ state.currentSaturation # currentSaturation
        THEN debouncedPublishRGB([e1 EXCEPT !.sat = state.currentSaturation])
        ELSE e1

\* publishRGB with the level captured when the publish was scheduled
publishRGB_scheduledLevel ==
    LET prefix == IF config.options.hex THEN config.options.hexPrefix ELSE Undefined
        rgbHex == hsvToHex([hue |-> currentHue, saturation |-> currentSaturation,
                            value |-> scheduledLevel], prefix)
    IN  publish(config.topics.setRGB, rgbHex)

\* reads the node's level when it runs
publishRGB ==
    LET currentValue == IF endpoint.currentLevel # Null THEN endpoint.currentLevel
                        ELSE DefaultValue
        prefix == IF config.options.hex THEN config.options.hexPrefix ELSE Undefined
        rgbHex == hsvToHex([hue |-> currentHue, saturation |-> currentSaturation,
                            value |-> currentValue], prefix)
    IN  publish(config.topics.setRGB, rgbHex)

\* Only a press at position 0 publishes
MomentarySwitchDevice_handleMatterButtonPress_positionZero(position) ==
    IF position = 0 THEN publish(config.topics.setCommand, config.options.commandValue)
    ELSE NoEffect

MomentarySwitchDevice_handleMatterButtonPress(position) ==
    LET payload == config.options.commandValue
    IN  publish(config.topics.setCommand, payload)

\* setupMatterEventHandlers of each class: the handler it registers for an
\* observable, applied to the notified value (b for onOff, n otherwise)
Handler(event, b, n) ==
    CASE config.type \in {"OnOffPlugInUnitDevice", "OnOffLightDevice"} ->
            IF event = "onOff$Changed" THEN handleMatterOnOffChange(b) ELSE NoEffect
      [] config.type = "DimmableLightDevice" ->
            IF event = "onOff$Changed" THEN handleMatterOnOffChange(b)
            ELSE IF event = "currentLevel$Changed"
            THEN DimmableDevice_handleMatterBrightnessChange(n)
            ELSE NoEffect
      [] config.type = "ExtendedColorLightDevice" ->
            IF event = "onOff$Changed" THEN handleMatterOnOffChange(b)
            ELSE IF event = "currentLevel$Changed"
            THEN ColorDevice_handleMatterBrightnessChange(n)
            ELSE IF event = "currentHue$Changed" THEN currentHueChanged(n)
            ELSE IF event = "currentSaturation$Changed" THEN currentSaturationChanged(n)
            ELSE IF event = "stateChanged" THEN stateChanged(endpoint)
            ELSE NoEffect
      [] config.type = "GenericSwitchDevice" ->
            IF event = "initialPress$Changed"
            THEN MomentarySwitchDevice_handleMatterButtonPress(n)
            ELSE NoEffect
      [] OTHER ->
            IF event = "onOff$Changed" THEN handleMatterPowerChange(b) ELSE NoEffect

\* The node emits the observable; a handler runs if initialize registered it
Emit(event, b, n) ==
    IF initialized /\ event \in events THEN Handler(event, b, n) ELSE NoEffect

(***************************************************************************)
(* The steps of the system.                                                *)
(***************************************************************************)
\* Values a Matter controller writes
LevelValues == {12, 254}
HueValues == {0, 85}
SaturationValues == {127, 254}
Positions == {0, 1}

\* Topics on which the broker delivers messages to the bridge: the device's
\* own topics and a topic another device subscribed to
MessageTopics == {TopicString(role) : role \in TopicRoles(config.type)} \cup {ForeignTopic}

\* The payloads tried on a topic: those that tell its handler's cases apart
PayloadsOn(topic) ==
    CASE topic = TopicString("getOnline") -> {"Online", "Offline", "yes", "no"}
      [] topic = TopicString("getOn") -> {"ON", "OFF", "yes", "no"}
      [] topic = TopicString("getBrightness") -> {"255", "256", "-1", "12px", "ON"}
      [] topic = TopicString("getRGB") -> {"ff0000", "#00ff00", "12px", "ON"}
      [] topic = TopicString("getState") ->
            {"{\"POWER\":\"ON\"}", "{\"POWER\":\"OFF\",\"INPUT\":\"HDMI3\"}",
             "{\"POWER\":\"yes\"}", "{\"INPUT\":\"HDMI1\"}", "null", "not-json",
             "255", "ON"}
      [] OTHER -> {"ON"}

Event(kind, from, payload, attr, b, n) ==
    [kind |-> kind, from |-> from, payload |-> payload, attr |-> attr, bool |-> b, num |-> n,
     threw |-> FALSE]

\* The step assigns what the handler did; pending is the queue it appends to
Commit(e, pending, event) ==
    /\ currentHue' = e.hue
    /\ currentSaturation' = e.sat
    /\ publishRgbTimeout' = e.timeout
    /\ pendingSets' = pending \o e.sets
    /\ sets' = e.sets
    /\ pubs' = e.pubs
    /\ errors' = e.errors
    /\ ev' = [event EXCEPT !.threw = e.threw]

\* MqttClient's "connect" event
Connect ==
    /\ ~connected
    /\ connected' = TRUE
    /\ Commit(NoEffect, pendingSets, Event("connect", "", "", "", FALSE, 0))
    /\ UNCHANGED <<config, events, endpoint, initialized>>

\* MqttClient's "close" event
Close ==
    /\ connected
    /\ connected' = FALSE
    /\ Commit(NoEffect, pendingSets, Event("close", "", "", "", FALSE, 0))
    /\ UNCHANGED <<config, events, endpoint, initialized>>

\* initialize(): subscribe rejects unless the client is connected; then
\* setupMatterEventHandlers, which for a ColorDevice also reads the node's
\* hue and saturation
Initialize ==
    /\ ~initialized
    /\ connected
    /\ initialized' = TRUE
    /\ LET isColor == config.type = "ExtendedColorLightDevice"
           hue == IF isColor /\ endpoint.currentHue # Null
                  THEN endpoint.currentHue ELSE currentHue
           sat == IF isColor /\ endpoint.currentSaturation # Null
                  THEN endpoint.currentSaturation ELSE currentSaturation
       IN  Commit([NoEffect EXCEPT !.hue = hue, !.sat = sat], pendingSets,
                  Event("initialize", "", "", "", FALSE, 0))
    /\ UNCHANGED <<config, events, endpoint, connected>>

\* index.ts: mqttClient.onMessage hands every message to the instance
MqttMessage(topic, payload) ==
    /\ connected
    /\ LET e == handleMqttMessage(topic, payload)
       IN  /\ Len(pendingSets) + Len(e.sets) <= MaxPending
           /\ Commit(e, pendingSets, Event("message", topic, payload, "", FALSE, 0))
    /\ UNCHANGED <<config, events, endpoint, connected, initialized>>

\* The observable of an attribute
Observable(attr) == attr \o "$Changed"

\* The node's cluster of the attribute exists
HasAttribute(attr) ==
    attr = "reachable" \/ Observable(attr) \in events

\* The node's attribute changes to a new value and the node emits the
\* attribute's observable; from says who wrote it
Change(attr, b, n, from, pending) ==
    /\ endpoint' = IF attr \in {"reachable", "onOff"}
                   THEN [endpoint EXCEPT ![attr] = b]
                   ELSE [endpoint EXCEPT ![attr] = n]
    /\ Commit(Emit(Observable(attr), b, n), pending,
              Event("changed", from, "", attr, b, n))

\* A Matter controller writes an attribute (the server starts after initialize)
ControllerWrite(attr, b, n) ==
    /\ initialized
    /\ HasAttribute(attr)
    /\ IF attr = "onOff" THEN b # endpoint.onOff /\ n = 0
       ELSE ~b /\ n # endpoint[attr]
    /\ Change(attr, b, n, "controller", pendingSets)
    /\ UNCHANGED <<config, events, connected, initialized>>

\* The colorControl cluster emits stateChanged
StateChanged ==
    /\ initialized
    /\ "stateChanged" \in events
    /\ Commit(Emit("stateChanged", FALSE, 0), pendingSets,
              Event("stateChanged", "", "", "", FALSE, 0))
    /\ UNCHANGED <<config, events, endpoint, connected, initialized>>

\* The switch cluster emits the press event
InitialPress(position) ==
    /\ initialized
    /\ "initialPress$Changed" \in events
    /\ Commit(Emit("initialPress$Changed", FALSE, position), pendingSets,
              Event("press", "", "", "", FALSE, position))
    /\ UNCHANGED <<config, events, endpoint, connected, initialized>>

\* The oldest endpoint.set settles: the node takes the value (and notifies
\* if it changed), or the promise rejects and the catch logs the error
ApplySet(ok) ==
    /\ pendingSets # <<>>
    /\ LET s == Head(pendingSets)
           old == endpoint[s.attr]
           changed == IF s.attr \in {"reachable", "onOff"} THEN s.bool # old ELSE s.num # old
       IN  IF ok /\ HasAttribute(s.attr)
           THEN IF changed
                THEN Change(s.attr, s.bool, s.num, "set", Tail(pendingSets))
                ELSE /\ Commit(NoEffect, Tail(pendingSets),
                               Event("setApplied", "", "", s.attr, s.bool, s.num))
                     /\ UNCHANGED endpoint
           ELSE /\ Commit([NoEffect EXCEPT !.errors = 1], Tail(pendingSets),
                          Event("setRejected", "", "", s.attr, s.bool, s.num))
                /\ UNCHANGED endpoint
    /\ UNCHANGED <<config, events, connected, initialized>>

\* How far time can advance in a step of the clock: not beyond the moment
\* the timer is due
TickLength(step) ==
    IF publishRgbTimeout # NoTimeout /\ publishRgbTimeout < step
    THEN publishRgbTimeout ELSE step

\* Time passes; a due timer (0 left) fires before time passes on
Tick(step) ==
    /\ publishRgbTimeout # 0
    /\ Commit([NoEffect EXCEPT !.timeout = IF publishRgbTimeout = NoTimeout THEN NoTimeout
                                           ELSE publishRgbTimeout - TickLength(step)],
              pendingSets, Event("tick", "", "", "", FALSE, TickLength(step)))
    /\ UNCHANGED <<config, events, endpoint, connected, initialized>>

\* The debounce timer's callback: publishRGB(); publishRgbTimeout = null
TimerFire ==
    /\ publishRgbTimeout = 0
    /\ Commit([publishRGB EXCEPT !.timeout = NoTimeout], pendingSets,
              Event("timer", "", "", "", FALSE, 0))
    /\ UNCHANGED <<config, events, endpoint, connected, initialized>>

Init ==
    /\ config \in Configs
    /\ events \in NodeShapes(config.type)
    /\ endpoint = createEndpointConfig(config)
    /\ connected = FALSE
    /\ initialized = FALSE
    /\ currentHue = 0
    /\ currentSaturation = 0
    /\ publishRgbTimeout = NoTimeout
    /\ pendingSets = <<>>
    /\ ev = Event("none", "", "", "", FALSE, 0)
    /\ sets = <<>>
    /\ pubs = <<>>
    /\ errors = 0
    /\ clock = 0
    /\ changeTimes = <<>>
    /\ rgbTimes = <<>>
    /\ quiet = TRUE
    /\ scheduledLevel = Null
    /\ inbound = NoTraffic
    /\ timers = NoTimers
    /\ wire = NoReports
    /\ link = NoLink
    /\ Imported
    /\ Unstarted

Step ==
    \/ Connect
    \/ Close
    \/ Initialize
    \/ \E topic \in MessageTopics : \E payload \in PayloadsOn(topic) :
            MqttMessage(topic, payload)
    \/ \E b \in BOOLEAN : ControllerWrite("onOff", b, 0)
    \/ \E n \in LevelValues : ControllerWrite("currentLevel", FALSE, n)
    \/ \E n \in HueValues : ControllerWrite("currentHue", FALSE, n)
    \/ \E n \in SaturationValues : ControllerWrite("currentSaturation", FALSE, n)
    \/ StateChanged
    \/ \E position \in Positions : InitialPress(position)
    \/ \E ok \in BOOLEAN : ApplySet(ok)
    \/ Tick(DebounceDelay)
    \/ TimerFire

Next == Step /\ UNCHANGED observers /\ UNCHANGED startup

Spec == Init /\ [][Next]_vars

(***************************************************************************)
(* The debounce of the RGB publish, observed on a clock: one colour        *)
(* device, its colour and level notifications, the messages on its         *)
(* getRGB and getBrightness topics and the timer.                          *)
(***************************************************************************)
IsColorChange(e) ==
    e.kind = "changed" /\ e.attr \in {"currentHue", "currentSaturation"}

\* The observers follow the step the system takes
Observe ==
    /\ clock' = clock + (IF ev'.kind = "tick" THEN ev'.num ELSE 0)
    /\ changeTimes' = IF IsColorChange(ev') THEN Append(changeTimes, clock) ELSE changeTimes
    /\ rgbTimes' = IF \E i \in DOMAIN pubs' : pubs'[i].topic = config.topics.setRGB
                   THEN Append(rgbTimes, clock) ELSE rgbTimes
    /\ quiet' = (quiet /\ (\/ IsColorChange(ev')
                           \/ ev'.kind \in {"tick", "timer", "initialize"}
                           \/ /\ currentHue' = currentHue
                              /\ currentSaturation' = currentSaturation
                              /\ publishRgbTimeout' = publishRgbTimeout))
    /\ scheduledLevel' = IF publishRgbTimeout = NoTimeout /\ publishRgbTimeout' # NoTimeout
                         THEN endpoint'.currentLevel ELSE scheduledLevel
    /\ UNCHANGED <<inbound, timers, wire, link>>

InitDebounce ==
    /\ Init
    /\ config.type = "ExtendedColorLightDevice"
    /\ config.options = DefaultOptions(config.type)
    /\ "stateChanged" \in events

StepDebounce ==
    \/ Connect
    \/ Initialize
    \/ \E payload \in PayloadsOn(config.topics.getRGB) :
            MqttMessage(config.topics.getRGB, payload)
    \/ \E n \in LevelValues : ControllerWrite("currentLevel", FALSE, n)
    \/ \E n \in HueValues :
            Len(changeTimes) < MaxChanges /\ ControllerWrite("currentHue", FALSE, n)
    \/ \E n \in SaturationValues :
            Len(changeTimes) < MaxChanges /\ ControllerWrite("currentSaturation", FALSE, n)
    \/ StateChanged
    \/ clock + TickLength(TickStep) <= MaxTime /\ Tick(TickStep)
    \/ TimerFire

NextDebounce == StepDebounce /\ Observe /\ UNCHANGED startup

SpecDebounce == InitDebounce /\ [][NextDebounce]_vars

(***************************************************************************)
(* The registry on its own: registrations in any order, among them a       *)
(* second registration of a name with another descriptor and class, and    *)
(* the calls that read it.                                                 *)
(***************************************************************************)
\* What callers register: the built-in entries and a rival for one name
Registrations ==
    { BuiltIn[i] : i \in DOMAIN BuiltIn }
        \cup { Entry("OnOffLightDevice", "DimmableDevice", "DimmableDevice") }

\* One well-formed device entry of each type name, registered or not
RegistryConfigs ==
    { DeviceConfig("Lamp", type, Topics(type), NoOptions) : type \in TypeNames }

\* The graph nodes and the messaging clients a caller can pass
Nodes == {"endpoint-a", "endpoint-b"}

Clients == {"client-a", "client-b"}

Register(typeName, metadata, deviceClass) ==
    LET result == register(typeName, metadata, deviceClass)
    IN  /\ registry' = result.registry
        /\ firstRegistered' =
                IF has(typeName) THEN firstRegistered
                ELSE [firstRegistered EXCEPT
                        ![typeName] = Entry(typeName, metadata, deviceClass)]
        /\ op' = [name |-> "register", typeName |-> typeName,
                  metadata |-> metadata, deviceClass |-> deviceClass,
                  threw |-> result.threw, message |-> result.message,
                  before |-> registry]

CreateDevice(deviceConfig, node, mqttClient) ==
    LET result == createDevice(deviceConfig, node, mqttClient)
    IN  /\ op' = [name |-> "createDevice", config |-> deviceConfig,
                  endpoint |-> node, mqttClient |-> mqttClient,
                  threw |-> result.threw, message |-> result.message,
                  instances |-> result.instances]
        /\ UNCHANGED <<registry, firstRegistered>>

FactoryCreateDevice(deviceConfig, node, mqttClient) ==
    LET result == DeviceFactory_createDevice(deviceConfig, node, mqttClient)
    IN  /\ op' = [name |-> "DeviceFactory.createDevice", config |-> deviceConfig,
                  endpoint |-> node, mqttClient |-> mqttClient,
                  threw |-> result.threw, message |-> result.message,
                  instances |-> result.instances]
        /\ UNCHANGED <<registry, firstRegistered>>

\* DeviceRegistry.validateConfig on a config object: the object as it was
\* handed in, the result, and the object as the descriptor leaves it
ValidateConfig(deviceConfig) ==
    LET result == DeviceRegistry_validateConfig(deviceConfig)
    IN  /\ op' = [name |-> "validateConfig",
                  metadata |-> getMetadata(deviceConfig.type),
                  config |-> deviceConfig, valid |-> result.valid,
                  errors |-> result.errors, after |-> result.config]
        /\ UNCHANGED <<registry, firstRegistered>>

\* DeviceRegistry.clear
Clear ==
    /\ registry' = <<>>
    /\ firstRegistered' = [typeName \in TypeNames |-> NoEntry]
    /\ op' = [name |-> "clear"]

bootVars == <<file, phase, devices, nodes, bridges, listening, initializedBridges>>

InitRegistry ==
    /\ Unobserved
    /\ link = NoLink
    /\ Unstarted
    /\ registry = <<>>
    /\ firstRegistered = [typeName \in TypeNames |-> NoEntry]

StepRegistry ==
    \/ \E e \in Registrations :
            /\ has(e.typeName) \/ Len(registry) < MaxRegistered
            /\ Register(e.typeName, e.metadata, e.deviceClass)
    \/ \E deviceConfig \in RegistryConfigs, node \in Nodes, mqttClient \in Clients :
            CreateDevice(deviceConfig, node, mqttClient)
    \/ \E deviceConfig \in RegistryConfigs, node \in Nodes, mqttClient \in Clients :
            FactoryCreateDevice(deviceConfig, node, mqttClient)
    \/ \E deviceConfig \in RegistryConfigs : ValidateConfig(deviceConfig)
    \/ Clear

NextRegistry == StepRegistry /\ UNCHANGED <<core, observers, cfg, bootVars>>

SpecRegistry == InitRegistry /\ [][NextRegistry]_vars

(***************************************************************************)
(* Validation on its own: a config object is validated, by the registry    *)
(* or by a descriptor directly, and validated again as it was left.        *)
(***************************************************************************)
\* config.name as it reaches a validator: missing, empty or given
Names == {Undefined, "", "Lamp"}

\* A topics table that gives the roles in present a topic and the roles in
\* empty the empty string
TopicsTable(present, empty) ==
    [role \in AllRoles |->
        IF role \in present THEN TopicString(role)
        ELSE IF role \in empty THEN "" ELSE Undefined]

\* The topics tables written for a type: any of its roles left out, or
\* given as the empty string, and the full table with a role of another
\* type added
TopicsTables(type) ==
    { TopicsTable(present, {}) : present \in SUBSET TopicRoles(type) }
        \cup { TopicsTable(present, TopicRoles(type) \ present) :
                    present \in SUBSET TopicRoles(type) }
        \cup { TopicsTable(TopicRoles(type) \cup {role}, {}) :
                    role \in {"setRGB", "getState"} \ TopicRoles(type) }

\* The options of CustomOptions as the configuration file gives them
SuppliedOptions(type) ==
    [key \in OptionNames |->
        IF key = "hex"
        THEN IF type = "ExtendedColorLightDevice"
             THEN JsBoolean(CustomOptions(type).hex) ELSE JsUndefined
        ELSE IF CustomOptions(type)[key] = Undefined THEN JsUndefined
             ELSE JsString(CustomOptions(type)[key])]

\* Options tables: none given, all given, one given, and values whose type
\* is not the one the schema declares
OptionsTables(type) ==
    { NoOptions, SuppliedOptions(type),
      [NoOptions EXCEPT !["onlineValue"] = JsString("up")],
      [NoOptions EXCEPT !["onValue"] = JsNumber("1")],
      [NoOptions EXCEPT !["hex"] = JsString("yes")],
      [NoOptions EXCEPT !["onlineValue"] = JsBoolean(TRUE)] }

\* The config objects handed to a validator
RawConfigs ==
    UNION { { DeviceConfig(name, type, topics, NoOptions) :
                name \in Names, topics \in TopicsTables(type) }
            \cup { DeviceConfig("Lamp", type, Topics(type), options) :
                    options \in OptionsTables(type) } :
            type \in TypeNames }

\* DeviceRegistry.validateConfig(cfg): the descriptor assigns cfg.options
ValidateInPlace ==
    /\ ValidateConfig(cfg)
    /\ cfg' = DeviceRegistry_validateConfig(cfg).config

\* metadata.validateConfig(cfg), called on a descriptor directly
DescriptorValidate(metadata) ==
    LET result == validateConfig(metadata, cfg)
    IN  /\ op' = [name |-> "metadata.validateConfig", metadata |-> metadata,
                  config |-> cfg, valid |-> result.valid,
                  errors |-> result.errors, after |-> result.config]
        /\ cfg' = result.config
        /\ UNCHANGED <<registry, firstRegistered>>

InitValidate ==
    /\ Unobserved
    /\ link = NoLink
    /\ Imported
    /\ Unloaded
    /\ op = NoCall
    /\ cfg \in RawConfigs

StepValidate ==
    \/ ValidateInPlace
    \/ \E metadata \in DeviceClasses : DescriptorValidate(metadata)

NextValidate == StepValidate /\ UNCHANGED <<core, observers, bootVars>>

SpecValidate == InitValidate /\ [][NextValidate]_vars

(***************************************************************************)
(* bootstrap(): the configuration is loaded, the server node and the       *)
(* messaging client are created, each device gets its graph node and its   *)
(* instance, the fan-out handler is registered, the client connects, the   *)
(* instances are initialized and the server starts. An error ends the      *)
(* process.                                                                *)
(***************************************************************************)
\* The device entries a configuration file can hold
Entries ==
    { DeviceConfig("Lamp", "OnOffLightDevice", Topics("OnOffLightDevice"), NoOptions),
      DeviceConfig("Desk Plug", "OnOffPlugInUnitDevice",
                   TopicsTable(TopicRoles("OnOffPlugInUnitDevice") \cup {"setRGB"}, {}),
                   NoOptions),
      DeviceConfig("Desk Plug", "OnOffPlugInUnitDevice",
                   Topics("OnOffPlugInUnitDevice"),
                   [NoOptions EXCEPT !["onValue"] = JsNumber("1")]),
      DeviceConfig("Lamp", "ExtendedColorLightDevice",
                   Topics("ExtendedColorLightDevice"),
                   SuppliedOptions("ExtendedColorLightDevice")),
      DeviceConfig("Lamp", "DimmableLightDevice", Topics("DimmableLightDevice"),
                   [NoOptions EXCEPT !["onlineValue"] = JsString("up")]),
      DeviceConfig("Desk Plug", "DimmableLightDevice",
                   TopicsTable(TopicRoles("DimmableLightDevice") \ {"setBrightness"}, {}),
                   NoOptions),
      DeviceConfig("Desk Plug", "GenericSwitchDevice", Topics("GenericSwitchDevice"),
                   NoOptions),
      DeviceConfig("Lamp", "TVDevice", Topics("TVDevice"), NoOptions),
      DeviceConfig("Desk Plug", UnregisteredType, Topics(UnregisteredType), NoOptions),
      DeviceConfig("", "OnOffLightDevice", Topics("OnOffLightDevice"), NoOptions),
      DeviceConfig("Lamp", Undefined, Topics("OnOffLightDevice"), NoOptions) }

\* The devices arrays of a configuration file: up to MaxDevices entries,
\* no name given twice
Files ==
    { f \in UNION { [1..n -> Entries] : n \in 0..MaxDevices } :
        \A i, j \in DOMAIN f : (i # j /\ ~Falsy(f[i].name)) => f[i].name # f[j].name }

\* The error the catch block of bootstrap() prints before process.exit(1)
Exit(call, message) ==
    /\ phase' = "exited"
    /\ op' = [name |-> call, threw |-> TRUE, message |-> message]

\* The import stops after the first registration
ImportDevices_partial ==
    /\ phase = "importing"
    /\ LET e == BuiltIn[Len(registry) + 1]
       IN  Register(e.typeName, e.metadata, e.deviceClass)
    /\ phase' = "imported"
    /\ UNCHANGED <<cfg, file, devices, nodes, bridges, listening, initializedBridges,
                   connected>>

\* import "../mqtt/devices/index.js": the module's body runs, one
\* DeviceRegistry.register call after the other, before the body of any
\* module that imports it
ImportDevices ==
    /\ phase = "importing"
    /\ LET e == BuiltIn[Len(registry) + 1]
       IN  Register(e.typeName, e.metadata, e.deviceClass)
    /\ phase' = IF Len(registry) + 1 = Len(BuiltIn) THEN "imported" ELSE phase
    /\ UNCHANGED <<cfg, file, devices, nodes, bridges, listening, initializedBridges,
                   connected>>

\* const config = ConfigParser.loadFromFile(configPath)
LoadFromFile(readable) ==
    LET result == parseDevices(file)
    IN  /\ phase = "imported"
        /\ IF ~readable
           THEN /\ Exit("loadFromFile", <<"Failed to read config file: ">>)
                /\ UNCHANGED devices
           ELSE IF result.threw
           THEN /\ Exit("loadFromFile", result.message)
                /\ UNCHANGED devices
           ELSE /\ phase' = "loaded"
                /\ devices' = result.devices
                /\ op' = [name |-> "loadFromFile", threw |-> FALSE, message |-> <<>>]
        /\ UNCHANGED <<registry, firstRegistered, cfg, file, nodes, bridges,
                       listening, initializedBridges, connected>>

\* The storage, ServerNode.create, the aggregator and new MqttClient
CreateServerNode(ok) ==
    /\ phase = "loaded"
    /\ IF ok
       THEN /\ phase' = "adding"
            /\ op' = [name |-> "ServerNode.create", threw |-> FALSE, message |-> <<>>]
       ELSE Exit("ServerNode.create", <<>>)
    /\ UNCHANGED <<registry, firstRegistered, cfg, file, devices, nodes, bridges,
                   listening, initializedBridges, connected>>

\* One turn of the loop over config.devices: the endpoint is created and
\* added to the aggregator, then the factory constructs the instance
AddDevice ==
    /\ phase = "adding"
    /\ Len(nodes) < Len(devices)
    /\ LET device == devices[Len(nodes) + 1]
           endpointId == createEndpointId(device.name)
           result == DeviceFactory_createDevice(device, endpointId, "mqttClient")
       IN  /\ nodes' = Append(nodes, [id |-> endpointId,
                                      state |-> createEndpointConfig(device)])
           /\ IF result.threw
              THEN /\ Exit("DeviceFactory.createDevice", result.message)
                   /\ UNCHANGED bridges
              ELSE /\ bridges' = bridges \o result.instances
                   /\ op' = [name |-> "DeviceFactory.createDevice", threw |-> FALSE,
                             message |-> <<>>]
                   /\ UNCHANGED phase
    /\ UNCHANGED <<registry, firstRegistered, cfg, file, devices, listening,
                   initializedBridges, connected>>

\* mqttClient.onMessage(...), once every device has been added
OnMessage ==
    /\ phase = "adding"
    /\ Len(nodes) = Len(devices)
    /\ phase' = "wired"
    /\ listening' = TRUE
    /\ op' = [name |-> "onMessage", threw |-> FALSE, message |-> <<>>]
    /\ UNCHANGED <<registry, firstRegistered, cfg, file, devices, nodes, bridges,
                   initializedBridges, connected>>

\* The client is connected before the message handler is registered
ConnectClient_beforeWiring(ok) ==
    /\ phase = "adding"
    /\ Len(nodes) = Len(devices)
    /\ IF ok
       THEN /\ phase' = "connected"
            /\ connected' = TRUE
            /\ op' = [name |-> "connect", threw |-> FALSE, message |-> <<>>]
       ELSE /\ Exit("connect", <<"Failed to connect to MQTT broker:">>)
            /\ UNCHANGED connected
    /\ UNCHANGED <<registry, firstRegistered, cfg, file, devices, nodes, bridges,
                   listening, initializedBridges>>

\* await mqttClient.connect(); a failure ends the process
ConnectClient(ok) ==
    /\ phase = "wired"
    /\ IF ok
       THEN /\ phase' = "connected"
            /\ connected' = TRUE
            /\ op' = [name |-> "connect", threw |-> FALSE, message |-> <<>>]
       ELSE /\ Exit("connect", <<"Failed to connect to MQTT broker:">>)
            /\ UNCHANGED connected
    /\ UNCHANGED <<registry, firstRegistered, cfg, file, devices, nodes, bridges,
                   listening, initializedBridges>>

\* await bridge.initialize() of the next bridge
InitializeBridge(ok) ==
    /\ phase = "connected"
    /\ initializedBridges < Len(bridges)
    /\ IF ok
       THEN /\ initializedBridges' = initializedBridges + 1
            /\ op' = [name |-> "initialize", threw |-> FALSE, message |-> <<>>]
            /\ UNCHANGED phase
       ELSE /\ Exit("initialize", <<>>)
            /\ UNCHANGED initializedBridges
    /\ UNCHANGED <<registry, firstRegistered, cfg, file, devices, nodes, bridges,
                   listening, connected>>

\* await server.start()
StartServer(ok) ==
    /\ phase = "connected"
    /\ initializedBridges = Len(bridges)
    /\ IF ok
       THEN /\ phase' = "running"
            /\ op' = [name |-> "start", threw |-> FALSE, message |-> <<>>]
       ELSE Exit("start", <<>>)
    /\ UNCHANGED <<registry, firstRegistered, cfg, file, devices, nodes, bridges,
                   listening, initializedBridges, connected>>

instanceVars == <<config, events, endpoint, initialized, currentHue,
                  currentSaturation, publishRgbTimeout, pendingSets, ev, sets,
                  pubs, errors>>

InitBootstrap ==
    /\ Unobserved
    /\ link = NoLink
    /\ registry = <<>>
    /\ firstRegistered = [typeName \in TypeNames |-> NoEntry]
    /\ op = NoCall
    /\ cfg = Undefined
    /\ file \in Files
    /\ phase = "importing"
    /\ devices = <<>>
    /\ nodes = <<>>
    /\ bridges = <<>>
    /\ listening = FALSE
    /\ initializedBridges = 0

StepBootstrap ==
    \/ ImportDevices
    \/ \E readable \in BOOLEAN : LoadFromFile(readable)
    \/ \E ok \in BOOLEAN : CreateServerNode(ok)
    \/ AddDevice
    \/ OnMessage
    \/ \E ok \in BOOLEAN : ConnectClient(ok)
    \/ \E ok \in BOOLEAN : InitializeBridge(ok)
    \/ \E ok \in BOOLEAN : StartServer(ok)

NextBootstrap == StepBootstrap /\ UNCHANGED <<instanceVars, observers>>

SpecBootstrap == InitBootstrap /\ [][NextBootstrap]_vars

(***************************************************************************)
(* The converters on their own: an input is drawn, a converter is applied  *)
(* to it, and the inverse converter to what the first returned.            *)
(***************************************************************************)
BrightnessInputs == (0 - MaxOutOfRange)..(255 + MaxOutOfRange)

\* Channel values: a grid over 0..255, its ends and their neighbours
Channels ==
    { c \in 0..255 : c % ChannelStep = 0 } \cup {1, 5, 239, 254, 255}

HexStrings ==
    { "ff0000", "#00ff00", "FF0000", "#00FF00", "AbCdEf", "#aBc123", "000000",
      "#ffffff", "0x1a2b3c", "00ff0", "00ff000", "gg0000", "#12345g",
      "##00ff00", " ff0000", "#", "" }

Prefixes == { Undefined, "", "#", "0x" }

\* The quotient n / d lies exactly halfway between two integers
Halfway(n, d) == (2 * n) % d = 0 /\ ((2 * n) \div d) % 2 = 1

\* A colour for which rgbToHsv rounds a quotient that lies halfway between
\* two integers: the double the source rounds may fall on either side of
\* it, so the rounding is not decided by the exact quotient
RoundsHalfway(rgb) ==
    LET max == Max(rgb.r, Max(rgb.g, rgb.b))
        min == Min(rgb.r, Min(rgb.g, rgb.b))
        delta == max - min
        hueNum == IF max = rgb.r
                  THEN (rgb.g - rgb.b) + (IF rgb.g < rgb.b THEN 6 * delta ELSE 0)
                  ELSE IF max = rgb.g
                       THEN (rgb.b - rgb.r) + 2 * delta
                  ELSE (rgb.r - rgb.g) + 4 * delta
    IN  /\ delta # 0
        /\ \/ Halfway(hueNum * 254, 6 * delta)
           \/ Halfway(delta * 254, max)
           \/ Halfway(max * 254, 255)

ConverterInputs ==
    [kind : {"brightness"}, value : BrightnessInputs]
    \cup { rgb \in [kind : {"rgb"}, r : Channels, g : Channels, b : Channels] :
                ~RoundsHalfway(rgb) }
    \cup [kind : {"hex"}, rgbHex : HexStrings, prefix : Prefixes]

\* A call of a converter: on the input, or on what the call before returned
Call(name, of, arg, result) ==
    [name |-> name, of |-> of, arg |-> arg, result |-> result]

MqttToMatterBrightness ==
    /\ cfg.kind = "brightness"
    /\ \/ /\ op = NoCall
          /\ op' = Call("mqttToMatterBrightness", "input", cfg.value,
                        mqttToMatterBrightness(cfg.value))
       \/ /\ op # NoCall
          /\ op.name = "matterToMqttBrightness"
          /\ op.of = "input"
          /\ op' = Call("mqttToMatterBrightness", op.name, op.result,
                        mqttToMatterBrightness(op.result))

MatterToMqttBrightness ==
    /\ cfg.kind = "brightness"
    /\ \/ /\ op = NoCall
          /\ op' = Call("matterToMqttBrightness", "input", cfg.value,
                        matterToMqttBrightness(cfg.value))
       \/ /\ op # NoCall
          /\ op.name = "mqttToMatterBrightness"
          /\ op.of = "input"
          /\ op' = Call("matterToMqttBrightness", op.name, op.result,
                        matterToMqttBrightness(op.result))

RgbToHsv ==
    /\ cfg.kind = "rgb"
    /\ op = NoCall
    /\ op' = Call("rgbToHsv", "input", [r |-> cfg.r, g |-> cfg.g, b |-> cfg.b],
                  rgbToHsv(cfg))

HsvToRgb ==
    /\ cfg.kind = "rgb"
    /\ op # NoCall
    /\ op.name = "rgbToHsv"
    /\ op' = Call("hsvToRgb", op.name, op.result, hsvToRgb(op.result))

ParseRgbHex ==
    /\ cfg.kind = "hex"
    /\ op = NoCall
    /\ op' = Call("parseRgbHex", "input", cfg.rgbHex,
                  parseRgbHex(cfg.rgbHex, cfg.prefix))

\* rgbToHex of the colour parseRgbHex returned; null has no channels
RgbToHex ==
    /\ cfg.kind = "hex"
    /\ op # NoCall
    /\ op.name = "parseRgbHex"
    /\ op.result.valid
    /\ op' = Call("rgbToHex", op.name, op.result, rgbToHex(op.result, cfg.prefix))

InitConverters ==
    /\ Unobserved
    /\ link = NoLink
    /\ Imported
    /\ Unloaded
    /\ op = NoCall
    /\ cfg \in ConverterInputs

StepConverters ==
    \/ MqttToMatterBrightness
    \/ MatterToMqttBrightness
    \/ RgbToHsv
    \/ HsvToRgb
    \/ ParseRgbHex
    \/ RgbToHex

NextConverters ==
    StepConverters /\ UNCHANGED <<core, observers, registry, firstRegistered, cfg, bootVars>>

SpecConverters == InitConverters /\ [][NextConverters]_vars

(***************************************************************************)
(* The fan-out of inbound messages: the client's "message" event runs      *)
(* MqttClient.handleMessage, which calls the handler bootstrap() has       *)
(* registered, which calls handleMqttMessage of every bridge in turn. All  *)
(* of it is synchronous; the model takes one step per bridge and lets      *)
(* nothing else happen until the loop is through. config is the config of  *)
(* the bridge whose handler runs.                                          *)
(***************************************************************************)
\* The configs of the bridges: each type with its default options, and a
\* TV and a colour light with options of their own
FanOutConfigs ==
    { c \in Configs : \/ c.options = DefaultOptions(c.type)
                      \/ c.type \in {"TVDevice", "ExtendedColorLightDevice"} }

\* deviceBridges: up to MaxDevices bridges, at most one of them a colour
\* light (whose hue, saturation and timer the model holds)
BridgeLists ==
    { [i \in DOMAIN cs |-> Instance(get(cs[i].type).deviceClass, cs[i],
                                    "endpoint-" \o toString(i), "mqttClient")] :
        cs \in { f \in UNION { [1..n -> FanOutConfigs] : n \in 1..MaxDevices } :
                    Cardinality({ i \in DOMAIN f :
                        f[i].type = "ExtendedColorLightDevice" }) <= 1 } }

\* The topics of the broker: one per role, and one of another system
FanOutTopics == { TopicString(role) : role \in AllRoles } \cup {ForeignTopic}

\* Two payloads per inbound topic: one its handler decodes, one it may not
FanOutPayloads(topic) ==
    CASE topic = TopicString("getOnline") -> {"Online", "no"}
      [] topic = TopicString("getOn") -> {"ON", "yes"}
      [] topic = TopicString("getBrightness") -> {"255", "12px"}
      [] topic = TopicString("getRGB") -> {"ff0000", "12px"}
      [] topic = TopicString("getState") -> {"{\"POWER\":\"ON\"}", "not-json"}
      [] OTHER -> {"ON"}

\* No message is being dispatched
Idle == op = NoCall

\* A dispatch that starts before the one in progress is through
Deliver_interleaved(topic, payload) ==
    /\ connected
    /\ Len(inbound.delivered) < MaxMessages
    /\ inbound' = [inbound EXCEPT !.delivered =
                        Append(@, [topic |-> topic, payload |-> payload])]
    /\ op' = [name |-> "handleMessage", topic |-> topic, payload |-> payload,
              next |-> IF Idle THEN 1 ELSE op.next]
    /\ config' = bridges[IF Idle THEN 1 ELSE op.next].config
    /\ sets' = <<>>
    /\ pubs' = <<>>
    /\ errors' = 0
    /\ UNCHANGED <<currentHue, currentSaturation, publishRgbTimeout, bridges>>

\* this.client.on("message", ...): handleMessage calls the registered
\* handler, whose loop starts with the first bridge
Deliver(topic, payload) ==
    /\ connected
    /\ Idle
    /\ Len(inbound.delivered) < MaxMessages
    /\ inbound' = [inbound EXCEPT !.delivered =
                        Append(@, [topic |-> topic, payload |-> payload])]
    /\ op' = [name |-> "handleMessage", topic |-> topic, payload |-> payload,
              next |-> 1]
    /\ config' = bridges[1].config
    /\ sets' = <<>>
    /\ pubs' = <<>>
    /\ errors' = 0
    /\ UNCHANGED <<currentHue, currentSaturation, publishRgbTimeout, bridges>>

\* Bridge i has run its handler on the message being dispatched and e is
\* what it did: the loop goes on to the next bridge, or ends
Handed(i, e) ==
    /\ inbound' = [inbound EXCEPT !.handled[i] =
                        Append(@, [topic |-> op.topic, payload |-> op.payload,
                                   sets |-> e.sets, pubs |-> e.pubs,
                                   assigned |-> \/ e.hue # currentHue
                                                \/ e.sat # currentSaturation
                                                \/ e.timeout # publishRgbTimeout])]
    /\ currentHue' = e.hue
    /\ currentSaturation' = e.sat
    /\ publishRgbTimeout' = e.timeout
    /\ sets' = e.sets
    /\ pubs' = e.pubs
    /\ errors' = e.errors + (IF e.threw THEN 1 ELSE 0)
    /\ IF i < Len(bridges) /\ ~e.threw
       THEN /\ op' = [op EXCEPT !.next = i + 1]
            /\ config' = bridges[i + 1].config
       ELSE /\ op' = NoCall
            /\ config' = Undefined

\* bridge.handleMqttMessage(topic, payload) of the next bridge of the loop;
\* an exception leaves the loop and is caught by MqttClient.handleMessage
HandOver ==
    /\ ~Idle
    /\ Handed(op.next, handleMqttMessage(op.topic, op.payload))
    /\ UNCHANGED bridges

\* Every topic of the config, inbound or outbound
endpointTopics_allConfigured(deviceConfig) ==
    LET roles == <<"getOnline", "getOn", "setOn", "getBrightness", "setBrightness",
                   "getRGB", "setRGB", "setCommand", "getState", "setPower">>
        configured(role) == deviceConfig.topics[role] # Undefined
        present == SelectSeq(roles, configured)
    IN  [k \in DOMAIN present |-> deviceConfig.topics[present[k]]]

\* metadata.createEndpointConfig(config).topics of each class
endpointTopics(deviceConfig) ==
    CASE deviceConfig.type \in {"OnOffPlugInUnitDevice", "OnOffLightDevice"} ->
            <<deviceConfig.topics.getOnline, deviceConfig.topics.getOn>>
      [] deviceConfig.type = "DimmableLightDevice" ->
            <<deviceConfig.topics.getOnline, deviceConfig.topics.getOn,
              deviceConfig.topics.getBrightness>>
      [] deviceConfig.type = "ExtendedColorLightDevice" ->
            <<deviceConfig.topics.getOnline, deviceConfig.topics.getOn,
              deviceConfig.topics.getBrightness, deviceConfig.topics.getRGB>>
      [] deviceConfig.type = "GenericSwitchDevice" -> <<deviceConfig.topics.getOnline>>
      [] OTHER -> <<deviceConfig.topics.getOnline, deviceConfig.topics.getState>>

\* initialize(): the topics each class subscribes to
subscribedTopics(deviceConfig) ==
    CASE deviceConfig.type \in {"OnOffPlugInUnitDevice", "OnOffLightDevice"} ->
            {deviceConfig.topics.getOnline, deviceConfig.topics.getOn}
      [] deviceConfig.type = "DimmableLightDevice" ->
            {deviceConfig.topics.getOnline, deviceConfig.topics.getOn,
             deviceConfig.topics.getBrightness}
      [] deviceConfig.type = "ExtendedColorLightDevice" ->
            {deviceConfig.topics.getOnline, deviceConfig.topics.getOn,
             deviceConfig.topics.getBrightness, deviceConfig.topics.getRGB}
      [] deviceConfig.type = "GenericSwitchDevice" -> {deviceConfig.topics.getOnline}
      [] OTHER -> {deviceConfig.topics.getOnline, deviceConfig.topics.getState}

InitFanOut ==
    /\ Imported
    /\ bridges \in BridgeLists
    /\ inbound = [delivered |-> <<>>, handled |-> [i \in DOMAIN bridges |-> <<>>]]
    /\ op = NoCall
    /\ config = Undefined
    /\ connected = TRUE
    /\ initialized = TRUE
    /\ currentHue = 0
    /\ currentSaturation = 0
    /\ publishRgbTimeout = NoTimeout
    /\ sets = <<>>
    /\ pubs = <<>>
    /\ errors = 0
    /\ events = {}
    /\ endpoint = Undefined
    /\ pendingSets = <<>>
    /\ ev = Undefined
    /\ clock = 0
    /\ changeTimes = <<>>
    /\ rgbTimes = <<>>
    /\ quiet = TRUE
    /\ scheduledLevel = Null
    /\ timers = NoTimers
    /\ wire = NoReports
    /\ link = NoLink
    /\ cfg = Undefined
    /\ file = <<>>
    /\ phase = "running"
    /\ devices = <<>>
    /\ nodes = <<>>
    /\ listening = TRUE
    /\ initializedBridges = Len(bridges)

StepFanOut ==
    \/ \E topic \in FanOutTopics : \E payload \in FanOutPayloads(topic) :
            Deliver(topic, payload)
    \/ HandOver

NextFanOut ==
    /\ StepFanOut
    /\ UNCHANGED <<events, endpoint, connected, initialized, pendingSets, ev, clock,
                   changeTimes, rgbTimes, quiet, scheduledLevel, timers, wire, link, registry,
                   firstRegistered, cfg, file, phase, devices, nodes, listening,
                   initializedBridges>>

SpecFanOut == InitFanOut /\ [][NextFanOut]_vars

(***************************************************************************)
(* The debounce timer as the runtime holds it: setTimeout returns a new    *)
(* handle and keeps the callback until it has run or clearTimeout is       *)
(* called with the handle. The other specifications keep the time left of  *)
(* one timer in publishRgbTimeout; here the runtime's timers are kept one  *)
(* by one, and publishRgbTimeout is the time left of the one the           *)
(* instance's field refers to.                                             *)
(***************************************************************************)
\* No clearTimeout before the new timer is set
cancelPending_skipped(t) == t

\* if (this.publishRgbTimeout) clearTimeout(this.publishRgbTimeout)
cancelPending(t) ==
    IF t.handle # NoTimeout
    THEN [t EXCEPT !.live = { x \in @ : x.id # t.handle },
                   !.cleared = @ \cup {t.handle}]
    ELSE t

\* ColorDevice.debouncedPublishRGB() called calls times in one handler
schedule(t, calls) ==
    LET once(u) == LET c == cancelPending(u)
                   IN  [c EXCEPT !.live = @ \cup {[id |-> c.next, left |-> DebounceDelay]},
                                 !.handle = c.next,
                                 !.next = @ + 1]
    IN  IF calls = 0 THEN t ELSE IF calls = 1 THEN once(t) ELSE once(once(t))

\* The time left of the timer the field refers to
TimeLeft(t) ==
    IF \E x \in t.live : x.id = t.handle
    THEN (CHOOSE x \in t.live : x.id = t.handle).left
    ELSE NoTimeout

\* A handler of the instance has run: e is what it did, calls the number of
\* times it called debouncedPublishRGB
Handled(e, calls) ==
    /\ timers.next + calls <= MaxTimers + 1
    /\ timers' = schedule(timers, calls)
    /\ currentHue' = e.hue
    /\ currentSaturation' = e.sat
    /\ pubs' = e.pubs
    /\ publishRgbTimeout' = TimeLeft(timers')
    /\ changeTimes' = IF calls > 0 THEN Append(changeTimes, clock) ELSE changeTimes
    /\ UNCHANGED <<clock, rgbTimes>>

\* events.colorControl.currentHue$Changed.on(...)
HueChanged(value) ==
    /\ Handled(currentHueChanged(value), IF value # currentHue THEN 1 ELSE 0)
    /\ UNCHANGED endpoint

\* events.colorControl.currentSaturation$Changed.on(...)
SaturationChanged(value) ==
    /\ Handled(currentSaturationChanged(value), IF value # currentSaturation THEN 1 ELSE 0)
    /\ UNCHANGED endpoint

\* events.colorControl.stateChanged.on(...) with both attributes in the state
BothChanged(hue, saturation) ==
    /\ Handled(stateChanged([currentHue |-> hue, currentSaturation |-> saturation]),
               (IF hue # currentHue THEN 1 ELSE 0)
                   + (IF saturation # currentSaturation THEN 1 ELSE 0))
    /\ UNCHANGED endpoint

\* The level handler of a dimmable light: the brightness is published and
\* the RGB publish is not scheduled
LevelChanged_brightnessOnly(value) ==
    /\ value # endpoint.currentLevel
    /\ endpoint' = [endpoint EXCEPT !.currentLevel = value]
    /\ Handled(DimmableDevice_handleMatterBrightnessChange(value), 0)

\* The node's level has changed: events.levelControl.currentLevel$Changed.on(...)
LevelChanged(value) ==
    /\ value # endpoint.currentLevel
    /\ endpoint' = [endpoint EXCEPT !.currentLevel = value]
    /\ Handled(ColorDevice_handleMatterBrightnessChange(value), 1)

\* Time passes, no further than the moment the next timer is due; the
\* clock is followed up to MaxTime and for as long as a timer is pending
Pass(step) ==
    LET passed == IF \E x \in timers.live : x.left < step
                  THEN CHOOSE left \in { x.left : x \in timers.live } :
                            \A x \in timers.live : left <= x.left
                  ELSE step
    IN  /\ passed > 0
        /\ clock + passed <= MaxTime \/ timers.live # {}
        /\ clock' = clock + passed
        /\ timers' = [timers EXCEPT !.live = { [x EXCEPT !.left = @ - passed] : x \in @ }]
        /\ publishRgbTimeout' = TimeLeft(timers')
        /\ pubs' = <<>>
        /\ UNCHANGED <<currentHue, currentSaturation, rgbTimes, changeTimes, endpoint>>

\* The callback of a due timer: publishRGB(); this.publishRgbTimeout = null
Fire(id) ==
    /\ [id |-> id, left |-> 0] \in timers.live
    /\ timers' = [timers EXCEPT !.live = @ \ {[id |-> id, left |-> 0]},
                                !.handle = NoTimeout,
                                !.ran = Append(@, id)]
    /\ pubs' = publishRGB.pubs
    /\ rgbTimes' = Append(rgbTimes, clock)
    /\ publishRgbTimeout' = NoTimeout
    /\ UNCHANGED <<currentHue, currentSaturation, clock, changeTimes, endpoint>>

InitTimers ==
    /\ Imported
    /\ Unstarted
    /\ config \in { c \in Configs : c.type = "ExtendedColorLightDevice" }
    /\ events \in { e \in NodeShapes(config.type) : "stateChanged" \in e }
    /\ endpoint = createEndpointConfig(config)
    /\ connected = TRUE
    /\ initialized = TRUE
    /\ currentHue = endpoint.currentHue
    /\ currentSaturation = endpoint.currentSaturation
    /\ publishRgbTimeout = NoTimeout
    /\ pendingSets = <<>>
    /\ ev = Undefined
    /\ sets = <<>>
    /\ pubs = <<>>
    /\ errors = 0
    /\ clock = 0
    /\ changeTimes = <<>>
    /\ rgbTimes = <<>>
    /\ quiet = TRUE
    /\ scheduledLevel = Null
    /\ inbound = NoTraffic
    /\ timers = NoTimers
    /\ wire = NoReports
    /\ link = NoLink

StepTimers ==
    \/ \E value \in HueValues : HueChanged(value)
    \/ \E value \in SaturationValues : SaturationChanged(value)
    \/ \E hue \in HueValues : \E saturation \in SaturationValues : BothChanged(hue, saturation)
    \/ \E value \in LevelValues : LevelChanged(value)
    \/ Pass(TickStep)
    \/ \E id \in 1..MaxTimers : Fire(id)

NextTimers ==
    /\ StepTimers
    /\ UNCHANGED <<config, events, connected, initialized, pendingSets, ev,
                   sets, errors, quiet, scheduledLevel, inbound, wire, link, startup>>

\* Time passes and a due timer's callback runs; notifications may stop
SpecTimers ==
    /\ InitTimers
    /\ [][NextTimers]_vars
    /\ WF_vars(Pass(TickStep) /\ NextTimers)
    /\ WF_vars((\E id \in 1..MaxTimers : Fire(id)) /\ NextTimers)

(***************************************************************************)
(* An on/off device that reports every command it receives on setOn back   *)
(* on getOn. The bridge's handlers are those of Spec; the broker keeps the *)
(* device's reports in order. The environment is a controller that writes  *)
(* the node's onOff and the device reporting of its own accord, both a     *)
(* bounded number of times.                                                *)
(***************************************************************************)
\* Nothing is on its way: no report to the bridge and no set to the node
Quiescent == wire.reports = <<>> /\ pendingSets = <<>>

\* A publish the device receives and reports back
IsCommand(pub) == pub.sent /\ pub.topic = config.topics.setOn

\* The reports the device sends for the publishes of a step
Echo(published) ==
    LET commands == SelectSeq(published, IsCommand)
    IN  [k \in DOMAIN commands |-> commands[k].payload]

\* The device reports a state of its own accord
Report(payload) ==
    /\ wire.spontaneous < MaxSpontaneous
    /\ wire' = [wire EXCEPT !.reports = Append(@, payload),
                            !.spontaneous = @ + 1,
                            !.raced = @ \/ ~Quiescent]
    /\ UNCHANGED core

\* The broker delivers the oldest report on getOn
DeliverReport ==
    /\ wire.reports # <<>>
    /\ MqttMessage(config.topics.getOn, Head(wire.reports))
    /\ wire' = [wire EXCEPT !.reports = Tail(@) \o Echo(pubs')]

\* A controller switches the node; the bridge's publish reaches the device
Switch(b) ==
    /\ wire.writes < MaxWrites
    /\ ControllerWrite("onOff", b, 0)
    /\ wire' = [wire EXCEPT !.reports = @ \o Echo(pubs'),
                            !.writes = @ + 1,
                            !.raced = @ \/ ~Quiescent]

\* The oldest set settles; if the node changes, the bridge's publish
\* reaches the device
Settle(ok) ==
    /\ ApplySet(ok)
    /\ wire' = [wire EXCEPT !.reports = @ \o Echo(pubs')]

InitEcho ==
    /\ Init
    /\ config.type \in {"OnOffPlugInUnitDevice", "OnOffLightDevice", "DimmableLightDevice"}
    /\ "onOff$Changed" \in events

StepEcho ==
    \/ Connect /\ UNCHANGED wire
    \/ Initialize /\ UNCHANGED wire
    \/ \E payload \in {"ON", "OFF"} : Report(payload)
    \/ DeliverReport
    \/ \E b \in BOOLEAN : Switch(b)
    \/ \E ok \in BOOLEAN : Settle(ok)

NextEcho ==
    /\ StepEcho
    /\ UNCHANGED <<clock, changeTimes, rgbTimes, quiet, scheduledLevel, inbound, timers,
                   link, startup>>

\* The broker delivers and the node settles its sets; the controller and
\* the device's own reports may stop
SpecEcho ==
    /\ InitEcho
    /\ [][NextEcho]_vars
    /\ WF_vars(DeliverReport /\ NextEcho)
    /\ WF_vars((\E ok \in BOOLEAN : Settle(ok)) /\ NextEcho)
    /\ WF_vars((Connect \/ Initialize) /\ NextEcho)

(***************************************************************************)
(* The messaging client's connection: connect(), the handlers it gives the *)
(* library's client for "connect" and "close", scheduleReconnect() with    *)
(* the callback of its timer, and disconnect() with the callback of end(). *)
(* The library's client is configured with reconnectPeriod 0, so it opens  *)
(* a connection only in connect() and in reconnect(). When a timer runs    *)
(* and when end() calls back is the runtime's and the library's choice.    *)
(***************************************************************************)
\* The reconnect settings of the broker configs: the defaults, one attempt,
\* a ceiling reached at the third attempt, a ceiling below the base delay;
\* parsePositiveInteger admits positive integers only
BrokerSettings ==
    { DEFAULT_MQTT_SETTINGS,
      [maxReconnectAttempts |-> 1, baseReconnectDelay |-> 1, maxReconnectDelay |-> 1],
      [maxReconnectAttempts |-> 3, baseReconnectDelay |-> 1000, maxReconnectDelay |-> 3000],
      [maxReconnectAttempts |-> 2, baseReconnectDelay |-> 5, maxReconnectDelay |-> 3] }

\* new MqttClient(config)
MqttClient(settings) ==
    [NoLink EXCEPT !.maxReconnectAttempts = settings.maxReconnectAttempts,
                   !.baseReconnectDelay = settings.baseReconnectDelay,
                   !.maxReconnectDelay = settings.maxReconnectDelay]

\* scheduleReconnect() that counts and schedules whatever the counter says
scheduleReconnect_unbounded(l) ==
    LET attempt == l.reconnectAttempts + 1
        delay == Min(l.baseReconnectDelay * (2 ^ (attempt - 1)), l.maxReconnectDelay)
    IN  [l EXCEPT !.reconnectAttempts = attempt,
                  !.timeouts = Append(@, [attempt |-> attempt, delay |-> delay,
                                          ending |-> l.ending])]

\* scheduleReconnect(): gives up at maxReconnectAttempts; else counts the
\* attempt and sets a timer of min(base * 2^(attempts - 1), max) ms. The
\* handle of the timer is not kept
scheduleReconnect(l) ==
    IF l.reconnectAttempts >= l.maxReconnectAttempts
    THEN l
    ELSE LET attempt == l.reconnectAttempts + 1
             delay == Min(l.baseReconnectDelay * (2 ^ (attempt - 1)), l.maxReconnectDelay)
         IN  [l EXCEPT !.reconnectAttempts = attempt,
                       !.timeouts = Append(@, [attempt |-> attempt, delay |-> delay,
                                               ending |-> l.ending])]

\* connect(): creates the library's client, which opens a connection
ConnectCall ==
    /\ link.client = "null"
    /\ link.last = "new"
    /\ link' = [link EXCEPT !.client = "client", !.stream = "connecting",
                            !.last = "connect()"]

\* the "connect" handler: resets the counter
OnConnect ==
    /\ link.stream = "connecting"
    /\ ~link.ending
    /\ link' = [link EXCEPT !.stream = "connected", !.reconnectAttempts = 0,
                            !.closes = 0, !.last = "connect"]

\* the "close" handler, when a connection is lost, an attempt to open one
\* fails, or end() closes the connection: scheduleReconnect()
OnClose ==
    /\ link.stream \in {"connecting", "connected"}
    /\ link.stream = "connected" /\ ~link.ending => link.drops < MaxDrops
    /\ link' = [scheduleReconnect(link) EXCEPT
                    !.stream = "closed",
                    !.closes = @ + 1,
                    !.drops = IF link.stream = "connected" /\ ~link.ending
                              THEN @ + 1 ELSE @,
                    !.last = "close"]

\* the callback of the timer that forgets to look at this.client
OnTimeout_unguarded(i) ==
    /\ i \in 1..Len(link.timeouts)
    /\ link' = [link EXCEPT
                    !.timeouts = SubSeq(@, 1, i - 1) \o SubSeq(@, i + 1, Len(@)),
                    !.ran = Append(@, [timer |-> link.timeouts[i], reconnected |-> TRUE,
                                       disconnected |-> link.disconnected]),
                    !.reconnects = @ + 1,
                    !.stream = "connecting",
                    !.last = "timeout"]

\* the callback of a reconnect timer: client.reconnect() if there is a client
OnTimeout(i) ==
    /\ i \in 1..Len(link.timeouts)
    /\ LET reconnect == link.client # "null"
       IN  link' = [link EXCEPT
                    !.timeouts = SubSeq(@, 1, i - 1) \o SubSeq(@, i + 1, Len(@)),
                    !.ran = Append(@, [timer |-> link.timeouts[i], reconnected |-> reconnect,
                                       disconnected |-> link.disconnected]),
                    !.reconnects = IF reconnect THEN @ + 1 ELSE @,
                    !.stream = IF reconnect THEN "connecting" ELSE @,
                    !.last = "timeout"]

\* disconnect(): client.end(false, {}, callback); without a client the
\* promise resolves at once
Disconnect ==
    /\ ~link.ending
    /\ ~link.disconnected
    /\ link.last # "new"
    /\ link' = IF link.client = "null"
               THEN [link EXCEPT !.disconnected = TRUE, !.last = "disconnect()"]
               ELSE [link EXCEPT !.ending = TRUE, !.last = "disconnect()"]

\* the callback of end(), once the connection is closed: this.client = null
\* and the promise of disconnect() resolves
EndCallback ==
    /\ link.ending
    /\ link.stream \in {"none", "closed"}
    /\ link' = [link EXCEPT !.client = "null", !.ending = FALSE,
                            !.disconnected = TRUE, !.last = "end"]

InitReconnect ==
    /\ Unobserved
    /\ Imported
    /\ Unstarted
    /\ \E settings \in BrokerSettings : link = MqttClient(settings)

StepReconnect ==
    \/ ConnectCall
    \/ OnConnect
    \/ OnClose
    \/ \E i \in 1..Len(link.timeouts) : OnTimeout(i)
    \/ Disconnect
    \/ EndCallback

NextReconnect ==
    /\ StepReconnect
    /\ UNCHANGED <<core, clock, changeTimes, rgbTimes, quiet, scheduledLevel, inbound,
                   timers, wire, startup>>

SpecReconnect == InitReconnect /\ [][NextReconnect]_vars

(***************************************************************************)
(* Properties.                                                             *)
(***************************************************************************)
\* The hue/saturation notifications a publish must follow: the last one and
\* every one whose successor arrives more than the window later
MustPublish ==
    {i \in DOMAIN changeTimes :
        i = Len(changeTimes) \/ changeTimes[i + 1] - changeTimes[i] > DebounceDelay}

\* At exactly the window's length the timer and the notification are due at
\* the same moment and either may run first
MayPublish ==
    MustPublish \cup
        {i \in DOMAIN changeTimes :
            i < Len(changeTimes) /\ changeTimes[i + 1] - changeTimes[i] = DebounceDelay}

C1_WitnessWithin ==
    /\ quiet
    /\ publishRgbTimeout = NoTimeout
    /\ Len(changeTimes) = 2
    /\ changeTimes[2] - changeTimes[1] \in 1..(DebounceDelay - 1)
    /\ rgbTimes = <<changeTimes[2] + DebounceDelay>>

\* C2: when the debounce timer fires, the one publish it makes on setRGB
\* encodes the cached hue and saturation with the level the node has at
\* that moment as V (the brightest channel is that level on the 0..255
\* scale), whatever the level was when the publish was scheduled.
C2_LevelAtFiring ==
    ev.kind = "timer" =>
        LET prefix == IF config.options.hex THEN config.options.hexPrefix ELSE Undefined
            rgb == hsvToRgb([hue |-> currentHue, saturation |-> currentSaturation,
                             value |-> endpoint.currentLevel])
        IN  /\ Len(pubs) = 1
            /\ pubs[1].topic = config.topics.setRGB
            /\ pubs[1].payload = rgbToHex(rgb, prefix)
            /\ Max(rgb.r, Max(rgb.g, rgb.b)) = Round(255 * endpoint.currentLevel, 254)

\* The timer fired after the level had changed since the scheduling
C2_Witness ==
    /\ ev.kind = "timer"
    /\ Len(pubs) = 1
    /\ scheduledLevel # Null
    /\ scheduledLevel # endpoint.currentLevel

IsMessageOn(role) ==
    /\ ev.kind = "message"
    /\ role \in TopicRoles(config.type)
    /\ ev.from = config.topics[role]

\* C3: a message on the getRGB topic, valid colour or not, issues no set at
\* all, and no set on the colorControl cluster is ever issued or in flight.
C3_NoSetFromRGB ==
    /\ IsMessageOn("getRGB") => sets = <<>>
    /\ \A i \in DOMAIN sets : sets[i].cluster # "colorControl"
    /\ \A i \in DOMAIN pendingSets : pendingSets[i].cluster # "colorControl"

\* A valid colour arrived on getRGB and moved the cache away from the node
C3_Witness ==
    /\ IsMessageOn("getRGB")
    /\ errors = 0
    /\ currentHue # endpoint.currentHue

\* C4: for every device type a message on getOnline issues exactly one set,
\* of reachable, to true if the payload equals onlineValue and to false for
\* every other payload, offlineValue included; the node takes that value
\* when the set is applied.
C4_Availability ==
    /\ IsMessageOn("getOnline") =>
            sets = <<SetCall("bridgedDeviceBasicInformation", "reachable",
                             ev.payload = config.options.onlineValue, 0)>>
    /\ (ev.kind \in {"changed", "setApplied"} /\ ev.attr = "reachable") =>
            endpoint.reachable = ev.bool

\* A payload that is neither the online nor the offline value set reachable
\* to false
C4_Witness ==
    /\ IsMessageOn("getOnline")
    /\ ev.payload \notin {config.options.onlineValue, config.options.offlineValue}
    /\ sets = <<SetCall("bridgedDeviceBasicInformation", "reachable", FALSE, 0)>>

\* C5: on a TV a getState document with a POWER field issues one set of
\* onOff, to true exactly if POWER equals onValue, whatever other fields it
\* has; a payload that is not JSON logs an error and issues no set.
C5_TVState ==
    (config.type = "TVDevice" /\ IsMessageOn("getState")) =>
        /\ ev.payload = "{\"POWER\":\"ON\"}" =>
                sets = <<SetCall("onOff", "onOff", config.options.onValue = "ON", 0)>>
        /\ ev.payload = "{\"POWER\":\"OFF\",\"INPUT\":\"HDMI3\"}" =>
                sets = <<SetCall("onOff", "onOff", config.options.onValue = "OFF", 0)>>
        /\ ev.payload = "{\"POWER\":\"yes\"}" =>
                sets = <<SetCall("onOff", "onOff", config.options.onValue = "yes", 0)>>
        /\ ev.payload \in {"not-json", "ON"} => (sets = <<>> /\ errors = 1)

\* A document with POWER other than onValue and a second field set onOff
\* to false
C5_Witness ==
    /\ config.type = "TVDevice"
    /\ IsMessageOn("getState")
    /\ ev.payload = "{\"POWER\":\"OFF\",\"INPUT\":\"HDMI3\"}"
    /\ sets = <<SetCall("onOff", "onOff", FALSE, 0)>>

\* C6: on an on/off, dimmable or colour device a message on getOn issues
\* exactly one set, of onOff, to true if the payload equals onValue and to
\* false otherwise; the node takes that value when the set is applied.
C6_OnOffState ==
    /\ IsMessageOn("getOn") =>
            sets = <<SetCall("onOff", "onOff", ev.payload = config.options.onValue, 0)>>
    /\ (ev.kind \in {"changed", "setApplied"} /\ ev.attr = "onOff") =>
            endpoint.onOff = ev.bool

\* A payload that is neither the on nor the off value set onOff to false
C6_Witness ==
    /\ IsMessageOn("getOn")
    /\ ev.payload \notin {config.options.onValue, config.options.offValue}
    /\ sets = <<SetCall("onOff", "onOff", FALSE, 0)>>

\* C7: on an initialised instance every onOff change notification makes
\* exactly one publish call, on setOn (setPower on a TV), with onValue if
\* the notified value is true and offValue if it is false.
C7_OnOffPublish ==
    (ev.kind = "changed" /\ ev.attr = "onOff" /\ initialized) =>
        /\ Len(pubs) = 1
        /\ pubs[1].topic = IF config.type = "TVDevice" THEN TopicString("setPower")
                           ELSE TopicString("setOn")
        /\ pubs[1].payload = IF ev.bool THEN config.options.onValue
                             ELSE config.options.offValue

\* A controller switched a light off and offValue was published
C7_Witness ==
    /\ ev.kind = "changed"
    /\ ev.attr = "onOff"
    /\ ev.from = "controller"
    /\ ~ev.bool
    /\ config.type # "TVDevice"
    /\ Len(pubs) = 1
    /\ pubs[1].payload = config.options.offValue

\* C8: on a dimmable or colour device a getBrightness payload that parses
\* to an integer b in 0..255 issues one set of currentLevel to min(b, 254);
\* a payload that is no number or out of range logs an error and issues no
\* set, and the messages after it are handled the same way.
C8_BrightnessState ==
    IsMessageOn("getBrightness") =>
        /\ ev.payload = "255" =>
                sets = <<SetCall("levelControl", "currentLevel", FALSE, 254)>>
        /\ ev.payload = "12px" =>
                sets = <<SetCall("levelControl", "currentLevel", FALSE, 12)>>
        /\ ev.payload \in {"256", "-1", "ON"} => (sets = <<>> /\ errors = 1)

\* Brightness 255 arrived and was clamped to 254
C8_Witness ==
    /\ IsMessageOn("getBrightness")
    /\ ev.payload = "255"
    /\ sets = <<SetCall("levelControl", "currentLevel", FALSE, 254)>>

\* C9: on an initialised dimmable or colour device every currentLevel
\* change notification with value L makes exactly one publish call, on
\* setBrightness, whose payload is L clamped to 0..254 in decimal.
C9_BrightnessPublish ==
    (ev.kind = "changed" /\ ev.attr = "currentLevel" /\ initialized) =>
        /\ Len(pubs) = 1
        /\ pubs[1].topic = TopicString("setBrightness")
        /\ pubs[1].payload = toString(Max(0, Min(254, ev.num)))
        /\ ev.num = 254 => pubs[1].payload = "254"
        /\ ev.num = 12 => pubs[1].payload = "12"

\* A controller set the level to the maximum and "254" was published
C9_Witness ==
    /\ ev.kind = "changed"
    /\ ev.attr = "currentLevel"
    /\ ev.from = "controller"
    /\ ev.num = 254
    /\ Len(pubs) = 1
    /\ pubs[1].payload = "254"

\* C10: on an initialised switch every press makes exactly one publish
\* call, of commandValue on setCommand, whatever the position; a message
\* makes no publish, and the only sets a switch issues are of reachable.
C10_ButtonPress ==
    config.type = "GenericSwitchDevice" =>
        /\ (ev.kind = "press" /\ initialized) =>
                /\ Len(pubs) = 1
                /\ pubs[1].topic = TopicString("setCommand")
                /\ pubs[1].payload = config.options.commandValue
        /\ ev.kind = "message" => pubs = <<>>
        /\ \A i \in DOMAIN sets : sets[i].attr = "reachable"
        /\ \A i \in DOMAIN pendingSets : pendingSets[i].attr = "reachable"

\* A press at position 1 published the command
C10_Witness ==
    /\ config.type = "GenericSwitchDevice"
    /\ ev.kind = "press"
    /\ ev.num = 1
    /\ Len(pubs) = 1
    /\ pubs[1].payload = config.options.commandValue

(***************************************************************************)
(* The registry                                                            *)
(***************************************************************************)
\* The last call registered a type name the registry already had
IsDuplicateRegistration ==
    /\ op.name = "register"
    /\ \E i \in DOMAIN op.before : op.before[i].typeName = op.typeName

\* C11: registering a type name that is already registered fails with a
\* duplicate error and leaves the registry as it was; the descriptor and
\* the class of the first registration are the ones the lookup returns
\* and createDevice constructs.
C11_DuplicateKeepsFirst ==
    IsDuplicateRegistration =>
        /\ op.threw
        /\ op.message = <<"Device type already registered: ", op.typeName>>
        /\ registry = op.before
        /\ get(op.typeName) = firstRegistered[op.typeName]
        /\ getMetadata(op.typeName) = firstRegistered[op.typeName].metadata
        /\ \A deviceConfig \in RegistryConfigs, node \in Nodes, mqttClient \in Clients :
                deviceConfig.type = op.typeName =>
                    createDevice(deviceConfig, node, mqttClient).instances =
                        <<Instance(firstRegistered[op.typeName].deviceClass,
                                   deviceConfig, node, mqttClient)>>

\* A second registration that brings another descriptor and another class
C11_Witness ==
    /\ IsDuplicateRegistration
    /\ op.metadata # firstRegistered[op.typeName].metadata
    /\ op.deviceClass # firstRegistered[op.typeName].deviceClass
    /\ Len(registry) > 1

\* The last call validated a config whose type the registry does not have
IsUnknownTypeValidation ==
    op.name = "validateConfig" /\ ~isRegistered(op.config.type)

\* C12: validateConfig of the registry on a config whose type is not
\* registered returns valid=false with exactly one error, and that error
\* names the unknown type and every registered type name.
C12_UnknownTypeListsValid ==
    IsUnknownTypeValidation =>
        /\ ~op.valid
        /\ Len(op.errors) = 1
        /\ Mentions(op.errors[1], op.config.type)
        /\ \A i \in DOMAIN registry : Mentions(op.errors[1], registry[i].typeName)

\* What the code does for C12: one error that names the unknown type only
C12_UnknownTypeNamed ==
    IsUnknownTypeValidation =>
        /\ ~op.valid
        /\ op.errors = << <<"Unknown device type: ", op.config.type>> >>
        /\ op.after = op.config

\* A config of an unregistered type validated while types are registered
C12_Witness ==
    /\ IsUnknownTypeValidation
    /\ Len(registry) > 1

\* C13: createDevice of the registry on a config whose type is not
\* registered fails with an unknown-type error that names the type and
\* lists every registered type name, and constructs nothing; for a
\* registered type it returns one instance of the class registered for
\* that type, holding exactly the config, the graph node and the messaging
\* client it was given.
C13_CreateDevice ==
    op.name = "createDevice" =>
        IF ~isRegistered(op.config.type)
        THEN /\ op.threw
             /\ op.message[1] = "Unknown device type: "
             /\ op.message[2] = op.config.type
             /\ \A i \in DOMAIN registry :
                    Mentions(SubSeq(op.message, 3, Len(op.message)),
                             registry[i].typeName)
             /\ op.instances = <<>>
        ELSE /\ ~op.threw
             /\ op.instances =
                    << [class |-> get(op.config.type).deviceClass,
                        config |-> op.config, endpoint |-> op.endpoint,
                        mqttClient |-> op.mqttClient] >>

\* createDevice failed for an unregistered type while types were registered
C13_Witness ==
    /\ op.name = "createDevice"
    /\ op.threw
    /\ Len(registry) > 1

\* createDevice constructed an instance of a class registered under a type
\* name of another descriptor
C13_WitnessRegistered ==
    /\ op.name = "createDevice"
    /\ Len(op.instances) = 1
    /\ op.instances[1].class = "DimmableDevice"
    /\ op.config.type = "OnOffLightDevice"
    /\ op.instances[1].endpoint = "endpoint-b"
    /\ op.instances[1].mqttClient = "client-a"

\* C14: DeviceFactory.createDevice behaves as createDevice of the registry
\* for every config: it fails exactly when the registry's does, that is
\* for the unregistered types only, and constructs the same instance.
C14_FactoryAsRegistry ==
    op.name = "DeviceFactory.createDevice" =>
        LET viaRegistry == createDevice(op.config, op.endpoint, op.mqttClient)
        IN  /\ op.threw = viaRegistry.threw
            /\ op.threw = ~isRegistered(op.config.type)
            /\ op.instances = viaRegistry.instances

\* What the code does for C14: the factory never reads the registry; it
\* constructs for the four type names of its switch and fails for every
\* other type name, registered or not
C14_FactorySwitch ==
    op.name = "DeviceFactory.createDevice" =>
        LET known == { "OnOffPlugInUnitDevice", "OnOffLightDevice",
                       "DimmableLightDevice", "ExtendedColorLightDevice" }
        IN  /\ op.threw = (op.config.type \notin known)
            /\ op.threw => /\ op.instances = <<>>
                           /\ op.message = <<"Unsupported device type: ", op.config.type>>
            /\ ~op.threw =>
                    /\ Len(op.instances) = 1
                    /\ op.instances[1].config = op.config
                    /\ op.instances[1].endpoint = op.endpoint
                    /\ op.instances[1].mqttClient = op.mqttClient
                    /\ op.config.type \in AcceptedTypes(op.instances[1].class)

\* The factory fails for TVDevice and for GenericSwitchDevice although the
\* type is registered and createDevice of the registry constructs it
C14_Witness ==
    /\ op.name = "DeviceFactory.createDevice"
    /\ op.config.type \in {"TVDevice", "GenericSwitchDevice"}
    /\ isRegistered("TVDevice")
    /\ isRegistered("GenericSwitchDevice")
    /\ op.threw
    /\ ~createDevice(op.config, op.endpoint, op.mqttClient).threw

(***************************************************************************)
(* Validation of a config by a descriptor                                  *)
(***************************************************************************)
\* The last call ran a descriptor's validateConfig, through the registry
\* or directly
IsDescriptorValidation ==
    \/ op.name = "metadata.validateConfig"
    \/ op.name = "validateConfig" /\ isRegistered(op.config.type)

\* The required roles the validated config gives no topic, or an empty one
MissingRoles ==
    { role \in AllRoles :
        /\ Mentions(topicSchema(op.metadata).required, role)
        /\ Falsy(op.config.topics[role]) }

\* config.name || "unknown" of the validated config
DeviceName == IF Falsy(op.config.name) THEN "unknown" ELSE op.config.name

\* C15: for every registered type, validating a config that has no topic,
\* or the empty string, for a required role yields valid=false with an
\* error that names that role; validating a config with a name, a
\* matching type, every required topic and no option yields valid=true and
\* leaves config.options with every option of the schema at its default.
C15_SchemaEnforcement ==
    IsDescriptorValidation =>
        /\ \A role \in MissingRoles :
                /\ ~op.valid
                /\ \E i \in DOMAIN op.errors :
                        op.errors[i] =
                            <<"[", DeviceName, "] Missing required topic: ", role>>
        /\ ( /\ ~Falsy(op.config.name)
             /\ op.config.type \in AcceptedTypes(op.metadata)
             /\ MissingRoles = {}
             /\ op.config.options = NoOptions )
            => /\ op.valid
               /\ op.errors = <<>>
               /\ \A key \in DOMAIN optionSchema(op.metadata) :
                    op.after.options[key] = optionSchema(op.metadata)[key].default
               /\ cfg = op.after

\* The registry validated a colour config whose getRGB topic is the empty
\* string
C15_Witness ==
    /\ op.name = "validateConfig"
    /\ op.metadata = "ColorDevice"
    /\ op.config.topics["getRGB"] = ""
    /\ ~op.valid

\* The registry validated a complete colour config that gives no option
C15_WitnessDefaults ==
    /\ op.name = "validateConfig"
    /\ op.metadata = "ColorDevice"
    /\ op.config.options = NoOptions
    /\ op.valid
    /\ op.after.options["hex"] = JsBoolean(FALSE)

\* The rules of a descriptor's validateConfig the validated config breaks
Violations ==
    (IF Falsy(op.config.name) THEN {<<"name">>} ELSE {})
        \cup (IF op.config.type \notin AcceptedTypes(op.metadata)
              THEN {<<"type">>} ELSE {})
        \cup { <<"topic", role>> : role \in MissingRoles }

\* The error validateConfig gives for a violation
ErrorOf(violation) ==
    CASE violation[1] = "name" -> <<"Missing device name">>
      [] violation[1] = "type" ->
            <<"Invalid type for " \o op.metadata \o ": ", Str(op.config.type)>>
      [] OTHER ->
            <<"[", DeviceName, "] Missing required topic: ", violation[2]>>

\* C16: a descriptor's validateConfig accumulates its errors: for a config
\* that breaks k rules at once (name missing, type wrong, each required
\* topic missing) the one result holds an error for each of the k
\* violations, and nothing else.
C16_ErrorsAccumulate ==
    IsDescriptorValidation =>
        /\ Len(op.errors) = Cardinality(Violations)
        /\ \A violation \in Violations :
                \E i \in DOMAIN op.errors : op.errors[i] = ErrorOf(violation)
        /\ op.valid = (Violations = {})

\* A config without a name, of another type and with two required topics
\* missing
C16_Witness ==
    /\ op.name = "metadata.validateConfig"
    /\ Falsy(op.config.name)
    /\ op.config.type \notin AcceptedTypes(op.metadata)
    /\ Cardinality(MissingRoles) = 2
    /\ Len(op.errors) = 4

\* The options the validated config supplies with a value of another type
\* than the schema declares
MistypedOptions ==
    { key \in DOMAIN optionSchema(op.metadata) :
        /\ op.config.options[key] # JsUndefined
        /\ op.config.options[key].type # optionSchema(op.metadata)[key].type }

\* C17: a descriptor's validateConfig reports a config as invalid when a
\* supplied option's value is not of the type the option schema declares.
C17_OptionTypesChecked ==
    (IsDescriptorValidation /\ MistypedOptions # {}) => ~op.valid

\* What the code does for C17: the options play no part in the verdict,
\* and a supplied value is kept whatever its type
C17_OptionsUnchecked ==
    IsDescriptorValidation =>
        /\ op.valid = (Violations = {})
        /\ \A key \in MistypedOptions : op.after.options[key] = op.config.options[key]

\* A colour config whose hex option is a string passed validation
C17_Witness ==
    /\ IsDescriptorValidation
    /\ op.metadata = "ColorDevice"
    /\ op.config.options["hex"] = JsString("yes")
    /\ op.valid

(***************************************************************************)
(* The configuration the instances are built from                          *)
(***************************************************************************)
\* The roles of the topic schema registered for a type name
SchemaRoles(typeName) ==
    { role \in AllRoles :
        \/ Mentions(topicSchema(getMetadata(typeName)).required, role)
        \/ Mentions(topicSchema(getMetadata(typeName)).optional, role) }

\* The roles a config gives a topic
GivenRoles(deviceConfig) ==
    { role \in AllRoles : deviceConfig.topics[role] # Undefined }

\* C18: no instance is ever constructed for a config that has a topic role
\* outside the required and optional roles of its type: the validator
\* rejects such a config.
C18_NoForeignRole ==
    \A i \in DOMAIN bridges :
        GivenRoles(bridges[i].config) \subseteq SchemaRoles(bridges[i].config.type)

\* What the code does for C18: every instance has a topic for each
\* required role of its type, and the topics are those of the file entry,
\* a role outside the schema included
C18_RequiredRolesOnly ==
    \A i \in DOMAIN bridges :
        /\ \A role \in SchemaRoles(bridges[i].config.type) :
                ~Falsy(bridges[i].config.topics[role])
        /\ bridges[i].config.topics = file[i].topics

\* An on/off instance constructed with a setRGB topic in its config
C18_Witness ==
    \E i \in DOMAIN bridges :
        /\ bridges[i].class = "OnOffDevice"
        /\ bridges[i].config.topics["setRGB"] = TopicString("setRGB")
        /\ phase = "running"

\* C19: every instance the bootstrap constructs receives a config whose
\* options hold a value for every option of its type's schema, the
\* default where the file gave none; it is the config validation left,
\* handed over as it is.
C19_OptionsResolved ==
    \A i \in DOMAIN bridges :
        /\ bridges[i].config = devices[i]
        /\ \A key \in DOMAIN optionSchema(getMetadata(bridges[i].config.type)) :
                /\ bridges[i].config.options[key] # JsUndefined
                /\ bridges[i].config.options[key] =
                        IF file[i].options[key] = JsUndefined
                        THEN optionSchema(getMetadata(file[i].type))[key].default
                        ELSE file[i].options[key]

\* An instance constructed for a file entry that gives no option, and one
\* for an entry that gives one option
C19_Witness ==
    /\ Len(bridges) = 2
    /\ \E i \in DOMAIN bridges : file[i].options = NoOptions
    /\ \E i \in DOMAIN bridges : file[i].options["onlineValue"] = JsString("up")

\* A device entry with a configuration error: its type is not registered,
\* its name is missing or empty, a required topic is missing, or an
\* option has a value of another type than the schema declares
InvalidEntry(raw) ==
    \/ ~isRegistered(raw.type)
    \/ Falsy(raw.name)
    \/ \E role \in SchemaRoles(raw.type) : Falsy(raw.topics[role])
    \/ \E key \in DOMAIN optionSchema(getMetadata(raw.type)) :
            /\ raw.options[key] # JsUndefined
            /\ raw.options[key].type # optionSchema(getMetadata(raw.type))[key].type

\* The same without the option types
RejectedEntry(raw) ==
    \/ ~isRegistered(raw.type)
    \/ Falsy(raw.name)
    \/ \E role \in SchemaRoles(raw.type) : Falsy(raw.topics[role])

\* bootstrap() has not got past loading: nothing is created or connected
NothingStarted ==
    /\ phase \in {"importing", "imported", "exited"}
    /\ devices = <<>>
    /\ nodes = <<>>
    /\ bridges = <<>>
    /\ ~listening
    /\ ~connected

\* C20: if any device entry of the configuration is invalid, loading fails
\* before a graph node or an instance is created and before the messaging
\* client connects, so the process never runs with an invalid
\* configuration.
C20_InvalidNeverStarts ==
    (\E i \in DOMAIN file : InvalidEntry(file[i])) => NothingStarted

\* What the code does for C20: an entry with an unregistered type, without
\* a name or without a required topic stops the bootstrap at loading, with
\* the error of the first such entry
C20_RejectedNeverStarts ==
    (\E i \in DOMAIN file : RejectedEntry(file[i])) =>
        /\ NothingStarted
        /\ phase = "exited" => /\ op.name = "loadFromFile"
                               /\ op.threw

\* A file whose second entry has an option of the wrong type, running
C20_Witness ==
    /\ Len(file) = 2
    /\ InvalidEntry(file[2])
    /\ ~InvalidEntry(file[1])
    /\ phase = "running"

\* A file whose first entry is valid and whose second is rejected: the
\* process has ended at loading
C20_WitnessRejected ==
    /\ Len(file) = 2
    /\ ~InvalidEntry(file[1])
    /\ RejectedEntry(file[2])
    /\ phase = "exited"
    /\ op.name = "loadFromFile"
    /\ op.threw
    /\ Len(op.message) > 1
    /\ op.message[2] = "1"

\* Loading has failed on a device entry of the file
IsDeviceFailure ==
    /\ phase = "exited"
    /\ op.name = "loadFromFile"
    /\ op.threw
    /\ Len(op.message) > 1
    /\ op.message[1] = "devices["

\* The indexes of the entries parseDevice rejects
RejectedIndexes == { i \in DOMAIN file : parseDevice(file[i], i - 1).threw }

\* C21: when several device entries of the file are invalid, the failure
\* of loading is a single one that names every invalid entry, not only
\* the first: the position of each rejected entry appears in its message.
C21_AggregatedFailure ==
    IsDeviceFailure =>
        \A i \in RejectedIndexes : Mentions(op.message, toString(i - 1))

\* What the code does for C21: the failure is the error of the first
\* rejected entry alone, and no later entry is named in it
C21_FirstFailureOnly ==
    IsDeviceFailure =>
        \E first \in RejectedIndexes :
            /\ \A i \in RejectedIndexes : first <= i
            /\ op.message = parseDevice(file[first], first - 1).message
            /\ \A i \in RejectedIndexes \ {first} :
                    ~Mentions(op.message, toString(i - 1))

\* Loading has failed on a file with two rejected entries
C21_Witness ==
    /\ IsDeviceFailure
    /\ RejectedIndexes = {1, 2}

(***************************************************************************)
(* The converters                                                          *)
(***************************************************************************)
\* matterToMqttBrightness has been applied to what mqttToMatterBrightness
\* returned for the input
IsBrightnessRoundTrip ==
    /\ op # NoCall
    /\ op.name = "matterToMqttBrightness"
    /\ op.of = "mqttToMatterBrightness"

\* C22: for every integer b in 0..255, matterToMqttBrightness of
\* mqttToMatterBrightness(b) lies in 0..254 and is min(b, 254); for every
\* integer input, in range or not, both converters return a value in
\* 0..254.
C22_BrightnessRoundTrip ==
    /\ (IsBrightnessRoundTrip /\ cfg.value \in 0..255) =>
            /\ op.result \in 0..254
            /\ op.result = Min(cfg.value, 254)
    /\ (op # NoCall /\ op.name \in {"mqttToMatterBrightness", "matterToMqttBrightness"}) =>
            op.result \in 0..254

\* The round trip of 255, and a converter applied to an input out of range
C22_Witness ==
    /\ IsBrightnessRoundTrip
    /\ cfg.value = 255
    /\ op.result = 254

C22_WitnessOutOfRange ==
    /\ op # NoCall
    /\ op.name = "mqttToMatterBrightness"
    /\ op.of = "input"
    /\ op.arg > 255

\* hsvToRgb has been applied to what rgbToHsv returned for the input
IsColorRoundTrip ==
    /\ op # NoCall
    /\ op.name = "hsvToRgb"
    /\ op.of = "rgbToHsv"

Abs(n) == IF n < 0 THEN 0 - n ELSE n

\* The largest difference between a channel of the input and the same
\* channel of the colour the round trip returned
ChannelError ==
    Max(Abs(op.result.r - cfg.r),
        Max(Abs(op.result.g - cfg.g), Abs(op.result.b - cfg.b)))

Grayscale == cfg.r = cfg.g /\ cfg.g = cfg.b

\* C23: for every RGB triple with channels in 0..255 that is not
\* grayscale, hsvToRgb of rgbToHsv reproduces each channel within 2 of the
\* original.
C23_ColorRoundTripWithin2 ==
    (IsColorRoundTrip /\ ~Grayscale) => ChannelError <= 2

\* C23 as amended: the round trip reproduces each channel within 3 of the
\* original; the hue keeps 254 steps for six sectors of 255 channel steps
\* each, so one step of hue moves a channel by up to six.
C23_ColorRoundTripWithin3 ==
    (IsColorRoundTrip /\ ~Grayscale) => ChannelError <= 3

\* The round trip of (0, 5, 239), which returns (0, 8, 239)
C23_Witness ==
    /\ IsColorRoundTrip
    /\ cfg.r = 0 /\ cfg.g = 5 /\ cfg.b = 239
    /\ op.arg = [hue |-> 168, saturation |-> 254, value |-> 238]
    /\ op.result = [r |-> 0, g |-> 8, b |-> 239]

\* rgbToHex has been applied to the colour parseRgbHex returned for the
\* input
IsHexRoundTrip ==
    /\ op # NoCall
    /\ op.name = "rgbToHex"
    /\ op.of = "parseRgbHex"

\* Exactly six hex digits
SixHexDigits(cs) == Len(cs) = 6 /\ \A i \in 1..6 : IsHexDigit(cs[i])

\* The characters of the configured prefix; none when there is no prefix
PrefixChars == IF cfg.prefix = Undefined THEN <<>> ELSE Chars(cfg.prefix)

\* The input is six hex digits after the configured prefix
GivenWithPrefix ==
    /\ Len(PrefixChars) > 0
    /\ StartsWith(Chars(cfg.rgbHex), PrefixChars)
    /\ SixHexDigits(SubSeq(Chars(cfg.rgbHex), Len(PrefixChars) + 1,
                           Len(Chars(cfg.rgbHex))))

\* The input is six hex digits and nothing else
GivenBare == SixHexDigits(Chars(cfg.rgbHex))

\* The input once the configured prefix, if it starts with it, is taken off
Stripped ==
    IF Len(PrefixChars) > 0 /\ StartsWith(Chars(cfg.rgbHex), PrefixChars)
    THEN SubSeq(Chars(cfg.rgbHex), Len(PrefixChars) + 1, Len(Chars(cfg.rgbHex)))
    ELSE Chars(cfg.rgbHex)

\* A hex digit in lower case
LowerCase(c) ==
    IF \E i \in 1..6 : UpperHexDigits[i] = c
    THEN HexDigits[(CHOOSE i \in 1..6 : UpperHexDigits[i] = c) + 10]
    ELSE c

\* The string of the characters cs, in lower case
RECURSIVE Normalised(_)
Normalised(cs) ==
    IF Len(cs) = 0 THEN "" ELSE LowerCase(Head(cs)) \o Normalised(Tail(cs))

\* parseRgbHex returns invalid exactly for the strings that are not six hex
\* digits once the prefix is stripped
InvalidUnlessSixHexDigits ==
    (op # NoCall /\ op.name = "parseRgbHex") =>
        (op.result.valid <=> SixHexDigits(Stripped))

C24_WitnessWithPrefix ==
    /\ IsHexRoundTrip
    /\ cfg.rgbHex = "#00FF00"
    /\ cfg.prefix = "#"
    /\ op.result = "#00ff00"

\* A string of seven hex digits, refused
C24_WitnessInvalid ==
    /\ op # NoCall
    /\ op.name = "parseRgbHex"
    /\ cfg.rgbHex = "00ff000"
    /\ ~op.result.valid

(***************************************************************************)
(* Errors                                                                  *)
(***************************************************************************)
\* The events a handler of the instance runs for
HandledKinds == {"message", "changed", "stateChanged", "press", "timer"}

\* The step has met an error: a payload that does not decode, a publish
\* the client rejects, or an endpoint.set that is rejected
MetError ==
    \/ ev.kind = "setRejected"
    \/ ev.kind \in HandledKinds /\ errors > 0

\* C25: no decode error and no rejected set or publish leaves the
\* instance: for every payload and every failing operation the handler
\* returns normally, the error is logged where it is met, and the step
\* ends with the instance as the handler left it.
C25_ErrorsStayInside ==
    /\ ev.kind \in HandledKinds \cup {"setRejected", "setApplied"} => ~ev.threw
    /\ MetError => errors = 1
    /\ (ev.kind = "message" /\ errors > 0) => sets = <<>> /\ pubs = <<>>
    /\ (ev.kind \in HandledKinds /\ \E i \in DOMAIN pubs : ~pubs[i].sent) => errors = 1

\* A document that is not JSON, on the state topic of a TV
C25_Witness ==
    /\ config.type = "TVDevice"
    /\ ev.kind = "message"
    /\ ev.from = config.topics.getState
    /\ ev.payload = "not-json"
    /\ errors = 1
    /\ ~ev.threw

\* A rejected endpoint.set, and a publish while the client is disconnected
C25_WitnessSetRejected ==
    /\ ev.kind = "setRejected"
    /\ errors = 1
    /\ ~ev.threw

C25_WitnessPublishRejected ==
    /\ ev.kind = "changed"
    /\ Len(pubs) = 1
    /\ ~pubs[1].sent
    /\ errors = 1
    /\ ~ev.threw

\* The events that trigger a publish: a change of the graph node, a press
\* of the switch, the debounce timer; and those that trigger a set
PublishingKinds == {"changed", "press", "timer"}
SettingKinds == {"message"}

\* C26: a rejected publish and a rejected set are never tried again by the
\* core. Each event leads to at most one publish attempt and at most one
\* set attempt; only the event that triggers a publish or a set issues it,
\* so the reconnect of the client, the settling of a set and the passing
\* of time issue none; a rejected set leaves the queue of sets in flight
\* and nothing else enters it; the debounce timer is gone once it has
\* fired, whether its publish was sent or not.
C26_NoRetry ==
    /\ [](/\ Len(pubs) <= 1
          /\ Len(sets) <= 1
          /\ pubs # <<>> => ev.kind \in PublishingKinds
          /\ sets # <<>> => ev.kind \in SettingKinds)
    /\ [][/\ ev'.kind = "setRejected" => /\ pendingSets' = Tail(pendingSets)
                                         /\ sets' = <<>> /\ pubs' = <<>>
          /\ ev'.kind = "connect" => /\ pendingSets' = pendingSets
                                     /\ publishRgbTimeout' = publishRgbTimeout
                                     /\ sets' = <<>> /\ pubs' = <<>>
          /\ ev'.kind = "timer" => publishRgbTimeout' = NoTimeout]_vars

\* A publish the disconnected client rejected, tried once
C26_Witness ==
    /\ ev.kind \in PublishingKinds
    /\ initialized
    /\ ~connected
    /\ Len(pubs) = 1
    /\ ~pubs[1].sent
    /\ errors = 1

\* The debounce timer has fired while the client was disconnected: its
\* publish failed and no timer is left
C26_WitnessTimer ==
    /\ ev.kind = "timer"
    /\ ~connected
    /\ Len(pubs) = 1
    /\ ~pubs[1].sent
    /\ publishRgbTimeout = NoTimeout

(***************************************************************************)
(* The fan-out.                                                            *)
(***************************************************************************)
\* The messages bridge i has been handed, in the order of the calls
HandedTo(i) ==
    [k \in DOMAIN inbound.handled[i] |->
        [topic |-> inbound.handled[i][k].topic,
         payload |-> inbound.handled[i][k].payload]]

\* The first n messages the transport delivered
Delivered(n) == SubSeq(inbound.delivered, 1, n)

\* The bridges whose handler has run for the message being dispatched
Reached(i) == Idle \/ i < op.next

\* C27: every bridge is handed the messages in the order the transport
\* delivered them, none skipped and none moved, so on every topic the sets
\* it issues for an earlier message come before those for a later one, and
\* all bridges see the same order
C27_DeliveryOrder ==
    \A i \in DOMAIN inbound.handled :
        /\ Len(inbound.handled[i]) <= Len(inbound.delivered)
        /\ HandedTo(i) = Delivered(Len(inbound.handled[i]))
        /\ \A j \in DOMAIN inbound.handled :
                i < j => Len(inbound.handled[j]) <= Len(inbound.handled[i])

\* Two bridges have each issued a set for the first and then for the second
\* of two different messages on one topic
C27_Witness ==
    /\ Idle
    /\ Len(bridges) = 2
    /\ Len(inbound.delivered) = 2
    /\ inbound.delivered[1].topic = inbound.delivered[2].topic
    /\ inbound.delivered[1].payload # inbound.delivered[2].payload
    /\ \A i \in 1..2 :
        /\ Len(inbound.handled[i]) = 2
        /\ inbound.handled[i][1].sets # <<>>
        /\ inbound.handled[i][2].sets # <<>>
        /\ inbound.handled[i][1].sets # inbound.handled[i][2].sets

\* What bridge i did with the k-th message
NoEffectOn(i, k) ==
    /\ inbound.handled[i][k].sets = <<>>
    /\ inbound.handled[i][k].pubs = <<>>
    /\ ~inbound.handled[i][k].assigned

\* C28: once a message is dispatched every bridge has been handed it, and
\* a bridge does nothing on a message whose topic is not one it subscribed
\* to: no set, no publish, no assignment to its fields
C28_HandedToAllForeignIgnored ==
    \A i \in DOMAIN inbound.handled :
        /\ Reached(i) => Len(inbound.handled[i]) = Len(inbound.delivered)
        /\ \A k \in DOMAIN inbound.handled[i] :
                inbound.handled[i][k].topic \notin subscribedTopics(bridges[i].config)
                    => NoEffectOn(i, k)

\* A message on the on/off command topic has gone through an on/off bridge
\* and through a bridge of another type
C28_Witness ==
    /\ Idle
    /\ Len(bridges) = 2
    /\ bridges[1].config.type = "OnOffLightDevice"
    /\ bridges[2].config.type # "OnOffLightDevice"
    /\ Len(inbound.delivered) >= 1
    /\ inbound.delivered[1].topic = bridges[1].config.topics.setOn
    /\ \A i \in 1..2 : Len(inbound.handled[i]) = Len(inbound.delivered)

\* One message acted on by one bridge and ignored by the other
C28_WitnessOneOfTwo ==
    /\ Idle
    /\ Len(bridges) = 2
    /\ Len(inbound.delivered) = 1
    /\ Len(inbound.handled[1]) = 1 /\ Len(inbound.handled[2]) = 1
    /\ inbound.handled[1][1].sets # <<>>
    /\ NoEffectOn(2, 1)

(***************************************************************************)
(* The debounce timer.                                                     *)
(***************************************************************************)
\* C29: at most one timer of the instance is pending, and it is the one the
\* field refers to; a timer that was cleared never runs its callback; and
\* the field is empty after a callback has run until the next scheduling,
\* so no timer that has run is referred to
C29_OnePendingTimer ==
    /\ Cardinality(timers.live) <= 1
    /\ \A x \in timers.live : x.id = timers.handle
    /\ \A k \in DOMAIN timers.ran : timers.ran[k] \notin timers.cleared
    /\ \A k \in DOMAIN timers.ran : timers.ran[k] # timers.handle
    /\ timers.handle # NoTimeout => \E x \in timers.live : x.id = timers.handle
    /\ publishRgbTimeout = TimeLeft(timers)

\* A timer was cleared by a later scheduling, the one that replaced it has
\* run and published, and nothing is pending
C29_Witness ==
    /\ timers.cleared # {}
    /\ timers.ran # <<>>
    /\ timers.live = {}
    /\ timers.handle = NoTimeout
    /\ Len(rgbTimes) = Len(timers.ran)
    /\ \E i \in DOMAIN pubs : pubs[i].topic = config.topics.setRGB

\* A handler that scheduled twice in one run
C29_WitnessTwice ==
    /\ timers.next = 3
    /\ timers.cleared = {1}
    /\ timers.live = {[id |-> 2, left |-> DebounceDelay]}
    /\ timers.ran = <<>>

\* The value the instance holds for the attribute of a notification
Cached(attr) == IF attr = "currentHue" THEN currentHue ELSE currentSaturation

\* C30: after the handler of a hue or saturation notification has returned,
\* a publish is pending with the whole delay ahead of it
C30_NotificationSchedules ==
    (initialized /\ IsColorChange(ev)) => publishRgbTimeout = DebounceDelay

\* What the handlers do: a notified value other than the one the instance
\* holds is taken over and the publish is scheduled with the whole delay
\* ahead; a notified value equal to the one it holds changes nothing, so a
\* publish is pending afterwards only if one was pending before
C30_SchedulesUnlessHeld ==
    [][(initialized /\ IsColorChange(ev')) =>
            IF ev'.num # Cached(ev'.attr)
            THEN /\ publishRgbTimeout' = DebounceDelay
                 /\ ev'.num = IF ev'.attr = "currentHue" THEN currentHue'
                              ELSE currentSaturation'
            ELSE /\ publishRgbTimeout' = publishRgbTimeout
                 /\ currentHue' = currentHue
                 /\ currentSaturation' = currentSaturation
                 /\ pubs' = <<>>]_vars

\* The node's hue has changed, the handler has returned and nothing is
\* pending: a message on the RGB topic had put that hue into the instance
C30_Witness ==
    /\ initialized
    /\ IsColorChange(ev)
    /\ ev.from = "controller"
    /\ publishRgbTimeout = NoTimeout
    /\ Cached(ev.attr) = ev.num
    /\ clock > 0

\* A notification after which the publish is pending
C30_WitnessScheduled ==
    /\ initialized
    /\ IsColorChange(ev)
    /\ publishRgbTimeout = DebounceDelay
    /\ rgbTimes # <<>>

(***************************************************************************)
(* The colour the instance holds.                                          *)
(***************************************************************************)
\* The colour of the node at its level, as publishRGB would encode it
NodeColour ==
    hsvToHex([hue |-> endpoint.currentHue, saturation |-> endpoint.currentSaturation,
              value |-> endpoint.currentLevel],
             IF config.options.hex THEN config.options.hexPrefix ELSE Undefined)

\* The colour a message on the getRGB topic carries
Carried(message) ==
    hexToHsv(message, IF config.options.hex THEN config.options.hexPrefix ELSE Undefined)

\* C31: every RGB publish encodes the hue and saturation of the node, and
\* no inbound message changes the hue or saturation the instance holds
C31_ColourFromNodeOnly ==
    /\ [](ev.kind = "timer" => /\ Len(pubs) = 1
                               /\ pubs[1].topic = config.topics.setRGB
                               /\ pubs[1].payload = NodeColour)
    /\ [][ev'.kind = "message" => /\ currentHue' = currentHue
                                  /\ currentSaturation' = currentSaturation]_vars

\* What the code does: a message on the getRGB topic that parses replaces
\* the hue and saturation the instance holds by those it carries; any other
\* message, the passing of time, the timer and the settling of a set leave
\* them alone
C31_ColourAlsoFromRGB ==
    [][/\ (ev'.kind = "message" /\ ev'.from = config.topics.getRGB
                /\ Carried(ev'.payload).valid)
            => /\ currentHue' = Carried(ev'.payload).hue
               /\ currentSaturation' = Carried(ev'.payload).saturation
       /\ (\/ ev'.kind \in {"tick", "timer", "setApplied", "setRejected"}
           \/ ev'.kind = "message" /\ ~(/\ ev'.from = config.topics.getRGB
                                        /\ Carried(ev'.payload).valid))
            => /\ currentHue' = currentHue
               /\ currentSaturation' = currentSaturation]_vars

\* The timer has published a colour that is not the node's: a message on
\* the getRGB topic came between the node's change and the publish
C31_Witness ==
    /\ ev.kind = "timer"
    /\ Len(pubs) = 1
    /\ pubs[1].topic = config.topics.setRGB
    /\ pubs[1].payload # NodeColour
    /\ currentHue # endpoint.currentHue

(***************************************************************************)
(* The echoing device.                                                     *)
(***************************************************************************)
\* C32: with an echoing device the bridge comes to rest: from some moment
\* on no report is on its way and no set is pending, whatever the order of
\* the reports and the controller's writes
C32_Quiescence == <>[]Quiescent

\* What holds: the bridge comes to rest in every run in which the
\* controller and the device act only while nothing is on its way
C32_QuiescenceUnlessRaced == <>[](wire.raced \/ Quiescent)

\* The bridge never multiplies what is on its way: there are no more
\* reports and pending sets than the environment has caused
C32_NoAmplification ==
    Len(wire.reports) + Len(pendingSets) <= wire.writes + wire.spontaneous

\* The controller has switched the node while a report's set was pending,
\* and the device's echoes of both values are on their way
C32_Witness ==
    /\ wire.raced
    /\ wire.writes = 1
    /\ Len(wire.reports) = 2
    /\ wire.reports[1] # wire.reports[2]
    /\ pendingSets = <<>>

\* At rest after a write and its echo, without a race
C32_WitnessAtRest ==
    /\ ~wire.raced
    /\ wire.writes = 1
    /\ Quiescent
    /\ ev.kind \in {"setApplied", "setRejected"}

\* The timer's callback has just run: it was the timer scheduled last, and
\* what it published is the colour the instance holds at the node's level
FiredLast ==
    /\ timers.live = {}
    /\ timers.ran # <<>>
    /\ timers.ran[Len(timers.ran)] = timers.next - 1
    /\ pubs = publishRGB.pubs
    /\ Len(pubs) = 1
    /\ pubs[1].topic = config.topics.setRGB

\* Every RGB publish came the whole delay after a scheduling, with no
\* scheduling in between, and each scheduling is followed by one at most
PublishedAfterSilence ==
    /\ \A k \in DOMAIN rgbTimes :
        /\ \E i \in DOMAIN changeTimes : changeTimes[i] + DebounceDelay = rgbTimes[k]
        /\ \A i \in DOMAIN changeTimes :
                ~(/\ changeTimes[i] > rgbTimes[k] - DebounceDelay
                  /\ changeTimes[i] < rgbTimes[k])
    /\ \A k, l \in DOMAIN rgbTimes : k < l => rgbTimes[k] + DebounceDelay <= rgbTimes[l]
    /\ Len(rgbTimes) <= Len(changeTimes)

\* C33: a pending publish is eventually made, by the timer scheduled last
\* and with the colour and level of that moment, and once it is made nothing
\* is pending; no RGB publish is made while schedulings come less than the
\* delay apart
C33_FiresOnceAfterSilence ==
    /\ [](PublishedAfterSilence)
    /\ [](timers.live = {} /\ changeTimes # <<>> =>
            Len(rgbTimes) >= 1 /\ rgbTimes[Len(rgbTimes)]
                = changeTimes[Len(changeTimes)] + DebounceDelay)
    /\ (timers.live # {}) ~> FiredLast

\* Three schedulings less than the delay apart (hue, level, saturation),
\* then silence: one publish, the delay after the last of them
C33_Witness ==
    /\ FiredLast
    /\ Len(changeTimes) = 3
    /\ changeTimes[2] - changeTimes[1] \in 1..(DebounceDelay - 1)
    /\ changeTimes[3] - changeTimes[2] \in 1..(DebounceDelay - 1)
    /\ rgbTimes = <<changeTimes[3] + DebounceDelay>>
    /\ timers.cleared = {1, 2}

\* The level handler has just run
LevelNotified == \E i \in DOMAIN pubs : pubs[i].topic = config.topics.setBrightness

\* C34: the level handler publishes the node's new level on setBrightness
\* at once and leaves a fresh timer with the whole delay ahead, any timer
\* pending before being cleared; and the RGB publish follows
C34_LevelPublishesBoth ==
    /\ [](LevelNotified =>
            /\ pubs = <<[topic |-> config.topics.setBrightness,
                         payload |-> toString(matterToMqttBrightness(endpoint.currentLevel)),
                         sent |-> connected]>>
            /\ timers.live = {[id |-> timers.next - 1, left |-> DebounceDelay]}
            /\ timers.handle = timers.next - 1
            /\ changeTimes[Len(changeTimes)] = clock)
    /\ LevelNotified ~> FiredLast

\* A level change alone, hue and saturation as the node had them from the
\* start, and its one RGB publish the delay later
C34_Witness ==
    /\ FiredLast
    /\ Len(changeTimes) = 1
    /\ timers.next = 2
    /\ endpoint.currentLevel # createEndpointConfig(config).currentLevel
    /\ currentHue = createEndpointConfig(config).currentHue
    /\ currentSaturation = createEndpointConfig(config).currentSaturation
    /\ rgbTimes = <<changeTimes[1] + DebounceDelay>>

(***************************************************************************)
(* The order of the start.                                                 *)
(***************************************************************************)
\* A call of the start that reads the registry
ReadsRegistry(call) == call.name \in {"loadFromFile", "DeviceFactory.createDevice"}

\* C35: when the first config is validated or the first device created,
\* every built-in type has been registered; from then on the registry is
\* never written; and the calls that validate, list, look up and create
\* leave its contents as they were
C35_RegistryFixedBeforeUse ==
    /\ [](phase # "importing" => registry = BuiltIn)
    /\ [][/\ phase # "importing" => registry' = registry
          /\ ReadsRegistry(op') => /\ registry' = registry
                                   /\ registry = BuiltIn
                                   /\ firstRegistered' = firstRegistered
          /\ registry' # registry => /\ op'.name = "register"
                                     /\ ~op'.threw
                                     /\ Len(registry') = Len(registry) + 1]_vars

\* Devices have been validated and two of them created, with the registry
\* as the import left it
C35_Witness ==
    /\ phase = "running"
    /\ Len(bridges) = 2
    /\ registry = BuiltIn
    /\ \A typeName \in DeviceTypes : firstRegistered[typeName] = get(typeName)

\* C36: the client is connected only with the message handler registered;
\* a bridge is initialised only with the client connected; the server runs
\* only with every bridge initialised; and after a failed connection the
\* process has ended with no bridge initialised and the client not
\* connected
C36_WiredConnectedInitialised ==
    /\ connected => listening
    /\ phase \in {"connected", "running"} => connected
    /\ connected => phase \in {"connected", "running", "exited"}
    /\ initializedBridges > 0 => connected /\ listening
    /\ phase = "running" => /\ connected
                            /\ initializedBridges = Len(bridges)
                            /\ Len(bridges) = Len(devices)
    /\ (op.name = "connect" /\ op.threw) =>
            /\ phase = "exited"
            /\ listening
            /\ ~connected
            /\ initializedBridges = 0
    /\ (phase = "exited" /\ op.name = "initialize") => connected

\* The connection has failed with two bridges constructed
C36_Witness ==
    /\ phase = "exited"
    /\ op.name = "connect"
    /\ op.threw
    /\ Len(bridges) = 2
    /\ initializedBridges = 0

\* Two bridges initialised after the connection, and the server started
C36_WitnessRunning ==
    /\ phase = "running"
    /\ connected
    /\ listening
    /\ initializedBridges = 2

(***************************************************************************)
(* The topics of a device type.                                            *)
(***************************************************************************)
\* The elements of a list
Elements(list) == { list[k] : k \in DOMAIN list }

\* The roles on which a device type publishes
OutboundRoles == {"setOn", "setBrightness", "setRGB", "setCommand", "setPower"}

\* The handler of the bridge whose turn it is does something on the topic:
\* for some payload it issues a set, assigns a field or logs an error
Reacts(topic) ==
    \E payload \in FanOutPayloads(topic) : handleMqttMessage(topic, payload) # NoEffect

\* C37: for the bridge whose turn it is and for every bridge that has
\* handled a message: the topic list of createEndpointConfig is the list
\* initialize subscribes to, each topic once; the handler reacts to a topic
\* exactly if it is in that list; and no outbound topic is in it
C37_TopicListsAgree ==
    /\ ~Idle =>
        LET list == endpointTopics(config)
        IN  /\ Elements(list) = subscribedTopics(config)
            /\ Len(list) = Cardinality(subscribedTopics(config))
            /\ \A topic \in FanOutTopics : Reacts(topic) <=> topic \in Elements(list)
            /\ \A role \in OutboundRoles : config.topics[role] \notin Elements(list)
            /\ Undefined \notin Elements(list)
    /\ \A i \in DOMAIN inbound.handled : \A k \in DOMAIN inbound.handled[i] :
            ~NoEffectOn(i, k) =>
                inbound.handled[i][k].topic \in Elements(endpointTopics(bridges[i].config))

\* A colour light is handed a message on its setRGB topic after a TV has
\* acted on a message on its getState topic
C37_Witness ==
    /\ ~Idle
    /\ config.type = "ExtendedColorLightDevice"
    /\ op.topic = config.topics.setRGB
    /\ Len(endpointTopics(config)) = 4
    /\ Len(bridges) = 2
    /\ bridges[1].config.type = "TVDevice"
    /\ Len(inbound.handled[1]) = 2
    /\ inbound.handled[1][1].topic = bridges[1].config.topics.getState
    /\ ~NoEffectOn(1, 1)

\* base doubled attempt - 1 times
RECURSIVE Doubled(_, _)
Doubled(base, attempt) == IF attempt <= 1 THEN base ELSE 2 * Doubled(base, attempt - 1)

\* C38: the reconnect counter of the messaging client stays within
\* 0..maxReconnectAttempts. A step schedules at most one reconnect timer,
\* and only the "close" handler schedules one; the timer is that of attempt
\* n, the n-th close in a row since the last successful connection, and
\* its delay is min(baseReconnectDelay * 2^(n-1), maxReconnectDelay). After
\* maxReconnectAttempts closes in a row a close schedules nothing, and the
\* "connect" handler leaves the counter at 0.
C38_ReconnectBounded ==
    /\ link.reconnectAttempts = 0
    /\ [][/\ link'.reconnectAttempts \in 0..link.maxReconnectAttempts
          /\ Len(link'.timeouts) <= Len(link.timeouts) + 1
          /\ Len(link'.timeouts) > Len(link.timeouts) =>
                /\ link'.last = "close"
                /\ link.closes < link.maxReconnectAttempts
                /\ link'.reconnectAttempts = link.reconnectAttempts + 1
                /\ LET timer == link'.timeouts[Len(link'.timeouts)]
                   IN  /\ timer.attempt = link'.closes
                       /\ timer.attempt = link'.reconnectAttempts
                       /\ timer.delay = Min(Doubled(link.baseReconnectDelay, timer.attempt),
                                            link.maxReconnectDelay)
          /\ link'.last = "close" /\ link.closes >= link.maxReconnectAttempts =>
                /\ link'.timeouts = link.timeouts
                /\ link'.reconnectAttempts = link.reconnectAttempts
          /\ link'.last = "close" /\ link.closes < link.maxReconnectAttempts =>
                Len(link'.timeouts) = Len(link.timeouts) + 1
          /\ link'.last = "connect" => link'.reconnectAttempts = 0
         ]_vars

\* C38 witness: with the default settings a connection was established and
\* lost, ten attempts to reconnect failed, the seventh and later ones after
\* the capped delay of 60000 ms, and the eleventh close has scheduled nothing
C38_Witness ==
    /\ link.maxReconnectAttempts = 10
    /\ link.drops > 0
    /\ link.last = "close"
    /\ link.closes = 11
    /\ link.reconnectAttempts = 10
    /\ link.timeouts = <<>>
    /\ \E i \in 1..Len(link.ran) :
            link.ran[i].timer.attempt = 7 /\ link.ran[i].timer.delay = 60000
    /\ \E i \in 1..Len(link.ran) :
            link.ran[i].timer.attempt = 6 /\ link.ran[i].timer.delay = 32000

\* C38 witness: a successful reconnect has reset the counter
C38_WitnessReset ==
    /\ link.last = "connect"
    /\ link.reconnects > 0
    /\ link.reconnectAttempts = 0

ByDescriptor(call) ==
    /\ call.name \in {"validateConfig", "metadata.validateConfig"}
    /\ call.metadata # Undefined

\* C40: a descriptor's validateConfig keeps every option the config gives
\* and gives an option that is absent the default of the schema, or leaves
\* it absent when the schema does not have it; and when the same descriptor
\* validates the config again as the first validation left it, the result
\* is the same and the options stay as they are.
C40_ValidateIdempotent ==
    [][ByDescriptor(op') =>
          /\ \A key \in OptionNames :
                LET before == op'.config.options[key]
                    after == op'.after.options[key]
                    schema == optionSchema(op'.metadata)
                IN  /\ before # JsUndefined => after = before
                    /\ before = JsUndefined /\ key \in DOMAIN schema =>
                            after = schema[key].default
                    /\ before = JsUndefined /\ key \notin DOMAIN schema =>
                            after = JsUndefined
          /\ cfg' = op'.after
          /\ ByDescriptor(op) /\ op.metadata = op'.metadata =>
                /\ op'.config = op.after
                /\ op'.valid = op.valid
                /\ op'.errors = op.errors
                /\ op'.after.options = op.after.options
                /\ op'.after = op'.config
      ]_vars

\* C40 witness: the dimmable descriptor has validated a config a second
\* time: onlineValue, which the file gave, and the defaults the first
\* validation filled in are as they were
C40_Witness ==
    /\ op.name = "metadata.validateConfig"
    /\ op.metadata = "DimmableDevice"
    /\ op.valid
    /\ op.config.options["onlineValue"] = JsString("up")
    /\ op.config.options["offlineValue"] = JsString("Offline")
    /\ op.config.options["onValue"] = JsString("ON")
    /\ op.after = op.config
    /\ cfg = op.after
====
